---- MODULE Spec2Model ----
(***************************************************************************)
(* A model of the WebSocket endpoint of package uws (src/uws/uws.go):      *)
(* the frame encoder of Socket.Write, the streaming decoder of             *)
(* Socket.receive, and the procedures Close and send, run by the receive   *)
(* task of a socket and by tasks that call Write and Close.                *)
(*                                                                         *)
(* Bytes are integers 0..255, byte slices are sequences.  The read buffer  *)
(* of receive is kept as its unread window buffer[roffset:woffset].  Time  *)
(* is kept as the number of reads that timed out in a row, each taken to   *)
(* last ProbeTimeout; durations are in milliseconds.                       *)
(*                                                                         *)
(* The specifications run the same actions:                                *)
(*   SpecRecv   the receive task against a peer that sends any frames;     *)
(*   SpecClose  Close called by several tasks at once;                     *)
(*   SpecWrite  Write called by two tasks at once;                         *)
(*   SpecProbe  Write, the replies to PINGs and the probes of receive;     *)
(*   SpecIdle   the receive task against a peer that falls silent, under   *)
(*              Configs normalised by Dial and by Handle, with fairness;   *)
(*   SpecOpen   OpenHandler against the receive task spawned before it;    *)
(*   SpecConfig one Config normalised by Dial or Handle more than once;    *)
(*   SpecLimit  the receive task at the sizes of the program, against a    *)
(*              peer that sends one long frame;                            *)
(*   SpecHandle the subprotocol negotiation of Handle;                     *)
(*   SpecFail   Write, the PINGs and PONGs of receive, and stream writes   *)
(*              that fail;                                                 *)
(*   SpecChunk  the receive task against a stream that the reads split in  *)
(*              every way;                                                 *)
(*   SpecShut   Close called by a task while the receive task parses;      *)
(*   SpecLive   Write and Close called by tasks that are scheduled again   *)
(*              and again, with fairness.                                  *)
(*                                                                         *)
(* Package bslab is outside this source: bslab.Get is taken to return an   *)
(* empty buffer whatever the size asked, bslab.Put to do nothing.          *)
(***************************************************************************)
EXTENDS Integers, Sequences, FiniteSets, TLC

(* ------------------------------------------------------------------ *)
(* Program constants (uws.go:32-45)                                     *)
(* ------------------------------------------------------------------ *)
WEBSOCKET_FIN == 128
WEBSOCKET_MASK == 128
WEBSOCKET_OPCODE_TEXT == 1
WEBSOCKET_OPCODE_BLOB == 2
WEBSOCKET_OPCODE_CLOSE == 8
WEBSOCKET_OPCODE_PING == 9
WEBSOCKET_OPCODE_PONG == 10
WEBSOCKET_ERROR_PROTOCOL == 1002
WEBSOCKET_ERROR_INVALID == 1007
WEBSOCKET_ERROR_OVERSIZED == 1009
\* unsafe.Sizeof(uintptr(0)) on a 64-bit build
xorsize == 8

(* ------------------------------------------------------------------ *)
(* Bounds of the model                                                  *)
(* ------------------------------------------------------------------ *)
\* config.MessageSize and config.FragmentSize of the modelled socket, scaled
MessageSize == 4
FragmentSize == 2
\* frames the peer may put on the stream
MaxFrames == 2
\* stream writes that may fail while the connection is still open
MaxFail == 1
\* read timeouts in a row after which the inactivity limit is reached
InactiveProbes == 2
\* Write or Close calls one caller task makes
MaxCalls == 1
\* unread bytes on the stream below which the peer sends its next frame
MaxPending == 2
\* calls of Dial or Handle that are given the same Config
MaxNorms == 2

(* ------------------------------------------------------------------ *)
(* Bytes                                                                *)
(* ------------------------------------------------------------------ *)
\* what line 546 would compute without the bound of the frame's size
TakeAll(a, b) == a

Min(a, b) == IF a < b THEN a ELSE b

RECURSIVE BitXor(_, _, _)
BitXor(a, b, n) ==
    IF n = 0 THEN 0
    ELSE (((a % 2) + (b % 2)) % 2) + 2 * BitXor(a \div 2, b \div 2, n - 1)

\* a ^ b on bytes
Xor8(a, b) == BitXor(a, b, 8)

\* s[from:to] of Go, on 0-based offsets
Slice(s, from, to) == SubSeq(s, from + 1, to)

Drop(s, n) == SubSeq(s, n + 1, Len(s))

RECURSIVE Flatten(_)
Flatten(bufs) == IF bufs = <<>> THEN <<>> ELSE Head(bufs) \o Flatten(Tail(bufs))

\* binary.BigEndian.PutUint16
PutUint16(v) == << (v \div 256) % 256, v % 256 >>

\* binary.BigEndian.Uint16
Uint16(b) == b[1] * 256 + b[2]

\* binary.BigEndian.PutUint64, for the values an int of the model holds
PutUint64(v) ==
    << 0, 0, 0, 0, (v \div 16777216) % 256, (v \div 65536) % 256, (v \div 256) % 256, v % 256 >>

\* int(binary.BigEndian.Uint64(b)) on a 64-bit build: the 8 bytes read as a
\* two's complement 64-bit integer (a value with the top bit set is negative)
Uint64AsInt(b) ==
    IF b[1] >= 128
    THEN -( (255 - b[5]) * 16777216 + (255 - b[6]) * 65536 + (255 - b[7]) * 256 + (255 - b[8]) + 1 )
    ELSE b[5] * 16777216 + b[6] * 65536 + b[7] * 256 + b[8]

\* a masking that leaves the data as it is
NoXor(mask, data) == data

(* ------------------------------------------------------------------ *)
(* xor (uws.go:666-683): word-wise over the first (length/xorsize)      *)
(* words with the key replicated to word width, then byte-wise          *)
(* ------------------------------------------------------------------ *)
xor(mask, data) ==
    LET length == Len(data)
        offset == IF length >= xorsize THEN (length \div xorsize) * xorsize ELSE 0
    IN  [ i \in 1..length |->
            IF i - 1 < offset
            THEN Xor8(data[i], mask[(((i - 1) % xorsize) % 4) + 1])
            ELSE Xor8(data[i], mask[((i - 1 - offset) % 4) + 1]) ]

(* ------------------------------------------------------------------ *)
(* utf8.Valid, as called at uws.go:560                                  *)
(* ------------------------------------------------------------------ *)
\* a validation that accepts any bytes
AnyBytes(s) == TRUE

IsCont(b) == b >= 128 /\ b <= 191

\* the bytes of the sequence that a first byte b announces; 0 when b cannot
\* begin a sequence
Utf8Len(b) ==
    IF b < 128 THEN 1
    ELSE IF b >= 194 /\ b <= 223 THEN 2
    ELSE IF b >= 224 /\ b <= 239 THEN 3
    ELSE IF b >= 240 /\ b <= 244 THEN 4
    ELSE 0

\* a well-formed sequence begins at s[i]
Utf8At(s, i) ==
    LET b == s[i]
        k == Utf8Len(b)
    IN  /\ k > 0
        /\ i + k - 1 <= Len(s)
        /\ \A j \in 1..(k - 1) : IsCont(s[i + j])
        /\ (b = 224 => s[i + 1] >= 160)
        /\ (b = 237 => s[i + 1] <= 159)
        /\ (b = 240 => s[i + 1] >= 144)
        /\ (b = 244 => s[i + 1] <= 143)

\* the continuation byte s[i] belongs to the sequence begun by the nearest
\* byte before it that is not a continuation byte
Utf8Within(s, i) ==
    \E j \in 1..3 :
        /\ i - j >= 1
        /\ ~IsCont(s[i - j])
        /\ Utf8Len(s[i - j]) > j
        /\ \A m \in 1..(j - 1) : IsCont(s[i - m])

\* every byte begins a well-formed sequence or continues one
Utf8Valid(s) ==
    \A i \in 1..Len(s) : IF IsCont(s[i]) THEN Utf8Within(s, i) ELSE Utf8At(s, i)

(* ------------------------------------------------------------------ *)
(* Frames built by the code, as the net.Buffers handed to send          *)
(* ------------------------------------------------------------------ *)
\* a fragment count that forgets the remainder
FramesFloor(length, fragsize) == length \div fragsize

\* number of fragments of a Write of `length` bytes (uws.go:358-361)
Frames(length, fragsize) ==
    (length \div fragsize) + (IF length % fragsize # 0 THEN 1 ELSE 0)

\* offset and size of fragment `frame` (uws.go:363-366)
FragOffset(frame, fragsize) == (frame - 1) * fragsize

FragSize(length, frame, fragsize) ==
    IF frame = Frames(length, fragsize) THEN length - FragOffset(frame, fragsize) ELSE fragsize

\* header and extended length of a data fragment (uws.go:363-381)
WriteHeader(mode, length, frame, fragsize) ==
    LET fin  == IF frame = Frames(length, fragsize) THEN WEBSOCKET_FIN ELSE 0
        op   == IF frame > 1 THEN 0 ELSE mode
        size == FragSize(length, frame, fragsize)
    IN  IF size < 126 THEN << <<fin + op, size>> >>
        ELSE IF size < 65536 THEN << <<fin + op, 126>>, PutUint16(size) >>
        ELSE << <<fin + op, 127>>, PutUint64(size) >>

\* the MASK bit set on the header's second byte and the key appended (uws.go:382-385)
WithMask(bufs, key) ==
    << <<bufs[1][1], bufs[1][2] + WEBSOCKET_MASK>> >> \o Tail(bufs) \o << key >>

\* data[offset:offset+size] masked in place (uws.go:386, 391)
XorInPlace(key, data, offset, size) ==
    Slice(data, 0, offset) \o xor(key, Slice(data, offset, offset + size))
        \o Slice(data, offset + size, Len(data))

\* the buffers Write hands to send for fragment `frame`; data is the caller's
\* slice as it is at line 388, masked in place on a client (uws.go:370-388)
WriteFrame(isClient, mode, data, frame, fragsize, key) ==
    LET offset == FragOffset(frame, fragsize)
        size   == FragSize(Len(data), frame, fragsize)
        hdr    == WriteHeader(mode, Len(data), frame, fragsize)
    IN  (IF isClient THEN WithMask(hdr, key) ELSE hdr)
            \o << Slice(data, offset, offset + size) >>

\* the CLOSE frame of Close (uws.go:409-421)
CloseFrame(isClient, code, key) ==
    LET hdr  == << <<WEBSOCKET_FIN + WEBSOCKET_OPCODE_CLOSE, 0>> >>
        p1   == IF isClient THEN WithMask(hdr, key) ELSE hdr
        p2   == IF code # 0
                THEN << <<p1[1][1], p1[1][2] + 2>> >> \o Tail(p1) \o << PutUint16(code % 65536) >>
                ELSE p1
    IN  IF code # 0 /\ isClient
        THEN << p2[1], p2[2], xor(p2[2], p2[3]) >>
        ELSE p2

\* the PONG reply of receive (uws.go:594-600); byte(len(control)) is len % 256
PongFrame(isClient, control, key) ==
    LET hdr == << <<WEBSOCKET_FIN + WEBSOCKET_OPCODE_PONG, Len(control) % 256>> >>
    IN  IF isClient
        THEN WithMask(hdr, key) \o << xor(key, control) >>
        ELSE hdr \o << control >>

\* the keepalive PING of receive (uws.go:620-624)
PingFrame(isClient, key) ==
    LET hdr == << <<WEBSOCKET_FIN + WEBSOCKET_OPCODE_PING, 0>> >>
    IN  IF isClient THEN WithMask(hdr, key) ELSE hdr

(* ------------------------------------------------------------------ *)
(* The streaming decoder: one iteration of the inner loop of receive    *)
(* (uws.go:483-615) on the locals of receive, held in a record          *)
(* ------------------------------------------------------------------ *)
\* the locals of receive after lines 453-459; data and control nil
RxInit ==
    [ buffer |-> <<>>, fin |-> 0, opcode |-> 0, size |-> -1, mask |-> <<0, 0, 0, 0>>,
      dmode |-> 0, dsize |-> 0, doffset |-> 0, dlast |-> FALSE,
      data |-> <<>>, control |-> <<>>, code |-> 0, idle |-> 0 ]

\* a header check that lets every frame through
NoReject(isClient, b0, b1) == FALSE

\* the reject condition of lines 487-489 on the two header bytes
HeaderRejected(isClient, b0, b1) ==
    LET fin == b0 \div 128
        opcode == b0 % 16
        masked == b1 >= WEBSOCKET_MASK
    IN  \/ (isClient /\ masked)
        \/ (~isClient /\ ~masked)
        \/ (fin = 0 /\ opcode >= WEBSOCKET_OPCODE_CLOSE /\ opcode <= WEBSOCKET_OPCODE_PONG)
        \/ ( /\ opcode # 0 /\ opcode # WEBSOCKET_OPCODE_TEXT /\ opcode # WEBSOCKET_OPCODE_BLOB
             /\ (opcode < WEBSOCKET_OPCODE_CLOSE \/ opcode > WEBSOCKET_OPCODE_PONG) )

\* a length check that does not look at MessageSize
SizeNotLimited(opcode, fin, size, msize) ==
    \/ (opcode <= WEBSOCKET_OPCODE_BLOB /\ size = 0)
    \/ (opcode > WEBSOCKET_OPCODE_BLOB /\ size > 125)

\* the reject condition of line 529
SizeRejected(opcode, fin, size, msize) ==
    \/ (opcode <= WEBSOCKET_OPCODE_BLOB /\ size = 0)
    \/ (opcode > WEBSOCKET_OPCODE_BLOB /\ size > 125)
    \/ (fin = 1 /\ size > msize)

\* a header parser that moves past the first two bytes of a header whose
\* extended length is not there yet
ParseHeaderAdvancing(st, isClient, msize) ==
    IF Len(st.buffer) < 2 THEN [st |-> st, res |-> "break"]
    ELSE
    LET b0 == st.buffer[1]
        b1 == st.buffer[2]
        fin == b0 \div 128
        opcode == b0 % 16
        size0 == b1 % 128
        smask == IF isClient THEN 0 ELSE 4
        avail == Len(st.buffer)
        s1 == [st EXCEPT !.fin = fin, !.opcode = opcode, !.size = size0]
    IN  IF HeaderRejected(isClient, b0, b1)
        THEN [st |-> [s1 EXCEPT !.code = WEBSOCKET_ERROR_PROTOCOL], res |-> "close"]
        ELSE IF ~isClient /\ avail < 2 + smask
        THEN [st |-> [s1 EXCEPT !.size = -1], res |-> "break"]
        ELSE
        LET dmode == IF opcode = WEBSOCKET_OPCODE_TEXT \/ opcode = WEBSOCKET_OPCODE_BLOB
                     THEN opcode ELSE st.dmode
            dlast == IF dmode # 0 /\ fin = 1 THEN TRUE ELSE st.dlast
            s2 == [s1 EXCEPT !.dmode = dmode, !.dlast = dlast]
            hlen == IF size0 = 126 THEN 4 ELSE IF size0 = 127 THEN 10 ELSE 2
        IN  IF avail < hlen + smask
            THEN [st |-> [s2 EXCEPT !.size = -1, !.buffer = Drop(st.buffer, 2)], res |-> "break"]
            ELSE
            LET size == IF size0 = 126 THEN Uint16(Slice(st.buffer, 2, 4))
                        ELSE IF size0 = 127 THEN Uint64AsInt(Slice(st.buffer, 2, 10))
                        ELSE size0
                mask == IF isClient THEN st.mask ELSE Slice(st.buffer, hlen, hlen + 4)
                s3 == [s2 EXCEPT !.size = size, !.mask = mask,
                                 !.buffer = Drop(st.buffer, hlen + smask)]
            IN  IF SizeRejected(opcode, fin, size, msize)
                THEN [st |-> [s3 EXCEPT !.code = WEBSOCKET_ERROR_OVERSIZED], res |-> "close"]
                ELSE [st |-> [s3 EXCEPT !.dsize = IF dmode # 0 THEN st.dsize + size ELSE st.dsize],
                      res |-> "ok"]

\* lines 484-539, entered with size < 0.  res is "ok" (header consumed),
\* "break" (bytes of the header are missing: leave the inner loop) or "close"
\* (leave the outer loop)
ParseHeader(st, isClient, msize) ==
    IF Len(st.buffer) < 2 THEN [st |-> st, res |-> "break"]
    ELSE
    LET b0 == st.buffer[1]
        b1 == st.buffer[2]
        fin == b0 \div 128
        opcode == b0 % 16
        size0 == b1 % 128
        smask == IF isClient THEN 0 ELSE 4
        avail == Len(st.buffer)
        s1 == [st EXCEPT !.fin = fin, !.opcode = opcode, !.size = size0]
    IN  IF HeaderRejected(isClient, b0, b1)
        THEN [st |-> [s1 EXCEPT !.code = WEBSOCKET_ERROR_PROTOCOL], res |-> "close"]
        ELSE IF ~isClient /\ avail < 2 + smask
        THEN [st |-> [s1 EXCEPT !.size = -1], res |-> "break"]
        ELSE
        LET dmode == IF opcode = WEBSOCKET_OPCODE_TEXT \/ opcode = WEBSOCKET_OPCODE_BLOB
                     THEN opcode ELSE st.dmode
            dlast == IF dmode # 0 /\ fin = 1 THEN TRUE ELSE st.dlast
            s2 == [s1 EXCEPT !.dmode = dmode, !.dlast = dlast]
            hlen == IF size0 = 126 THEN 4 ELSE IF size0 = 127 THEN 10 ELSE 2
        IN  IF avail < hlen + smask
            THEN [st |-> [s2 EXCEPT !.size = -1], res |-> "break"]
            ELSE
            LET size == IF size0 = 126 THEN Uint16(Slice(st.buffer, 2, 4))
                        ELSE IF size0 = 127 THEN Uint64AsInt(Slice(st.buffer, 2, 10))
                        ELSE size0
                mask == IF isClient THEN st.mask ELSE Slice(st.buffer, hlen, hlen + 4)
                s3 == [s2 EXCEPT !.size = size, !.mask = mask,
                                 !.buffer = Drop(st.buffer, hlen + smask)]
            IN  IF SizeRejected(opcode, fin, size, msize)
                THEN [st |-> [s3 EXCEPT !.code = WEBSOCKET_ERROR_OVERSIZED], res |-> "close"]
                ELSE [st |-> [s3 EXCEPT !.dsize = IF dmode # 0 THEN st.dsize + size ELSE st.dsize],
                      res |-> "ok"]

\* a data path that appends without the test of line 547
ParseDataUnchecked(st, isClient, msize) ==
    LET max == Min(Len(st.buffer), st.size)
        none == <<>>
    IN  IF FALSE
        THEN [st |-> [st EXCEPT !.code = WEBSOCKET_ERROR_OVERSIZED], res |-> "close",
              msgs |-> none, asm |-> none]
        ELSE
        LET data1 == st.data \o Slice(st.buffer, 0, max)
            s1 == [st EXCEPT !.data = data1, !.size = st.size - max,
                             !.buffer = Drop(st.buffer, max)]
        IN  IF ~(s1.size <= 0 /\ Len(data1) >= st.dsize)
            THEN [st |-> s1, res |-> "next", msgs |-> none, asm |-> none]
            ELSE IF ~isClient /\ (st.doffset < 0 \/ st.dsize < st.doffset)
            THEN [st |-> s1, res |-> "panic", msgs |-> none, asm |-> none]
            ELSE
            LET data2 == IF isClient THEN data1
                         ELSE XorInPlace(st.mask, data1, st.doffset, st.dsize - st.doffset)
                s2 == [s1 EXCEPT !.data = data2, !.doffset = st.dsize]
                msg == << [mode |-> st.dmode, data |-> data2] >>
            IN  IF ~st.dlast
                THEN [st |-> [s2 EXCEPT !.size = -1], res |-> "next", msgs |-> none, asm |-> none]
                ELSE IF st.dmode = WEBSOCKET_OPCODE_TEXT /\ ~Utf8Valid(data2)
                THEN [st |-> [s2 EXCEPT !.code = WEBSOCKET_ERROR_INVALID], res |-> "close",
                      msgs |-> none, asm |-> msg]
                ELSE [st |-> [s2 EXCEPT !.dmode = 0, !.dsize = 0, !.doffset = 0, !.dlast = FALSE,
                                        !.data = <<>>, !.size = -1],
                      res |-> "next", msgs |-> msg, asm |-> msg]

\* lines 542-574, entered with size >= 0 and dmode # 0.  res is "next" (go on
\* to line 611), "close", or "panic" (the slice data[doffset:dsize] of line
\* 556 is out of range); msgs holds the message handed to MessageHandler and
\* asm the message as assembled when line 559 finds dlast set
ParseData(st, isClient, msize) ==
    LET max == Min(Len(st.buffer), st.size)
        none == <<>>
    IN  IF Len(st.data) + max > msize
        THEN [st |-> [st EXCEPT !.code = WEBSOCKET_ERROR_OVERSIZED], res |-> "close",
              msgs |-> none, asm |-> none]
        ELSE
        LET data1 == st.data \o Slice(st.buffer, 0, max)
            s1 == [st EXCEPT !.data = data1, !.size = st.size - max,
                             !.buffer = Drop(st.buffer, max)]
        IN  IF ~(s1.size <= 0 /\ Len(data1) >= st.dsize)
            THEN [st |-> s1, res |-> "next", msgs |-> none, asm |-> none]
            ELSE IF ~isClient /\ (st.doffset < 0 \/ st.dsize < st.doffset)
            THEN [st |-> s1, res |-> "panic", msgs |-> none, asm |-> none]
            ELSE
            LET data2 == IF isClient THEN data1
                         ELSE XorInPlace(st.mask, data1, st.doffset, st.dsize - st.doffset)
                s2 == [s1 EXCEPT !.data = data2, !.doffset = st.dsize]
                msg == << [mode |-> st.dmode, data |-> data2] >>
            IN  IF ~st.dlast
                THEN [st |-> [s2 EXCEPT !.size = -1], res |-> "next", msgs |-> none, asm |-> none]
                ELSE IF st.dmode = WEBSOCKET_OPCODE_TEXT /\ ~Utf8Valid(data2)
                THEN [st |-> [s2 EXCEPT !.code = WEBSOCKET_ERROR_INVALID], res |-> "close",
                      msgs |-> none, asm |-> msg]
                ELSE [st |-> [s2 EXCEPT !.dmode = 0, !.dsize = 0, !.doffset = 0, !.dlast = FALSE,
                                        !.data = <<>>, !.size = -1],
                      res |-> "next", msgs |-> msg, asm |-> msg]

\* lines 576-607, entered with size >= 0 and dmode = 0.  res is "next",
\* "close", or "pong" (the PONG of line 594 is to be sent)
ParseControl(st, isClient) ==
    LET max == Min(Len(st.buffer), st.size)
        control1 == st.control \o Slice(st.buffer, 0, max)
        s1 == [st EXCEPT !.control = control1, !.size = st.size - max,
                         !.buffer = Drop(st.buffer, max)]
    IN  IF s1.size > 0 THEN [st |-> s1, res |-> "next"]
        ELSE
        LET control2 == IF isClient THEN control1 ELSE xor(st.mask, control1)
            s2 == [s1 EXCEPT !.control = control2]
        IN  IF st.opcode = WEBSOCKET_OPCODE_CLOSE
            THEN [st |-> [s2 EXCEPT !.code = IF Len(control2) >= 2
                                             THEN Uint16(control2) ELSE st.code],
                  res |-> "close"]
            ELSE IF st.opcode = WEBSOCKET_OPCODE_PING
            THEN [st |-> s2, res |-> "pong"]
            ELSE [st |-> [s2 EXCEPT !.size = -1, !.control = <<>>], res |-> "next"]

\* one iteration of the inner loop (lines 483-615).  res is "cont" (iterate
\* again), "break" (to line 618), "close", "pong" or "panic"
ParseIter(st, isClient, msize) ==
    LET h == IF st.size < 0 THEN ParseHeader(st, isClient, msize)
             ELSE [st |-> st, res |-> "ok"]
    IN  IF h.res # "ok" THEN [st |-> h.st, res |-> h.res, msgs |-> <<>>, asm |-> <<>>]
        ELSE
        LET p == IF h.st.size < 0 THEN [st |-> h.st, res |-> "next", msgs |-> <<>>, asm |-> <<>>]
                 ELSE IF h.st.dmode # 0 THEN ParseData(h.st, isClient, msize)
                 ELSE ParseControl(h.st, isClient) @@ [msgs |-> <<>>, asm |-> <<>>]
        IN  IF p.res # "next" THEN p
            ELSE [st |-> p.st, res |-> IF p.st.buffer = <<>> THEN "break" ELSE "cont",
                  msgs |-> p.msgs, asm |-> p.asm]

(* ------------------------------------------------------------------ *)
(* Config (uws.go:47-66) and its normalisation by Dial and Handle       *)
(* ------------------------------------------------------------------ *)
\* time.Second, with the millisecond as the unit of the durations of the model
Second == 1000

\* cval (uws.go:651-662)
cval(value, fallback, min, max) ==
    LET v1 == IF value = 0 THEN fallback ELSE value
        v2 == IF v1 < min THEN min ELSE v1
    IN  IF v2 > max THEN max ELSE v2

\* a Config with every numeric option zero, as &Config{} of lines 96 and 305
ZeroConfig ==
    [ ReadSize |-> 0, FragmentSize |-> 0, MessageSize |-> 0, ConnectTimeout |-> 0,
      ProbeTimeout |-> 0, InactiveTimeout |-> 0, WriteTimeout |-> 0,
      WriteBufferSize |-> 0, ReadBufferSize |-> 0 ]

\* lines 101-103 of Dial and 307-309 of Handle
ClampSizes(c) ==
    [c EXCEPT !.ReadSize = cval(c.ReadSize, 4096, 4096, 262144),
              !.FragmentSize = cval(c.FragmentSize, 16384, 4096, 1048576),
              !.MessageSize = cval(c.MessageSize, 4194304, 4096, 67108864)]

\* lines 106-113 of Dial and 311-318 of Handle, c.ProbeTimeout already set
ClampRest(c) ==
    [c EXCEPT !.InactiveTimeout = cval(c.InactiveTimeout, 3 * c.ProbeTimeout,
                                       c.ProbeTimeout + Second, 5 * c.ProbeTimeout),
              !.WriteTimeout = cval(c.WriteTimeout, 10 * Second, 1 * Second, 30 * Second),
              !.ReadBufferSize = IF c.ReadBufferSize # 0
                                 THEN cval(c.ReadBufferSize, 4096, 4096, 33554432) ELSE 0,
              !.WriteBufferSize = IF c.WriteBufferSize # 0
                                  THEN cval(c.WriteBufferSize, 4096, 4096, 33554432) ELSE 0]

\* the Config after lines 101-113 of Dial; line 104 reads ProbeTimeout
DialConfig(c) ==
    LET c1 == ClampSizes(c)
        c2 == [c1 EXCEPT !.ConnectTimeout =
                             cval(c1.ProbeTimeout, 10 * Second, 1 * Second, 30 * Second)]
        c3 == [c2 EXCEPT !.ProbeTimeout =
                             cval(c2.ProbeTimeout, 15 * Second, 1 * Second, 30 * Second)]
    IN  ClampRest(c3)

\* the Config after lines 307-318 of Handle, which leave ConnectTimeout alone
HandleConfig(c) ==
    LET c1 == ClampSizes(c)
        c2 == [c1 EXCEPT !.ProbeTimeout =
                             cval(c1.ProbeTimeout, 10 * Second, 1 * Second, 30 * Second)]
    IN  ClampRest(c2)

\* the normalisation of Dial (client role) or of Handle (server role)
Normalised(isClient, c) == IF isClient THEN DialConfig(c) ELSE HandleConfig(c)

(* ------------------------------------------------------------------ *)
(* State                                                                *)
(* ------------------------------------------------------------------ *)
VARIABLES
    client,      \* Socket.client
    connected,   \* Socket.connected
    closing,     \* Socket.closing
    connClosed,  \* conn.Close() has been called on Socket.conn
    wlock,       \* holder of Socket.wlock, or "none"
    dlock,       \* holder of Socket.dlock, or "none"
    pc,          \* per task: its call stack, innermost position first
    out,         \* per task: the payload argument of its current send
    err,         \* per task: the error returned by its last send
    ccode,       \* per task: the code argument of its current Close
    calls,       \* per task: Write / Close calls made so far
    wdata,       \* per task: the data slice passed to Write
    wmode,       \* per task: the mode passed to Write
    wframe,      \* per task: the loop variable frame of Write
    wmask,       \* per task: the local mask of Write
    rx,          \* the locals of receive
    ev,          \* history: what the last inner-loop iteration of receive saw and did
    inbound,     \* bytes that have arrived on conn and are not read yet
    peer,        \* history: what the peer has sent
    wire,        \* history: the frames handed to conn by send, in order
    delivered,   \* history: MessageHandler invocations that match no message of the peer
    hcalls,      \* history: CloseHandler invocations, in order
    failsLeft,   \* stream writes that may still fail while conn is open
    config,      \* the numeric options of the Config behind Socket.config
    norms,       \* history: the normalisations of Dial and Handle applied to config
    opened,      \* history: OpenHandler has been invoked
    handshake    \* the upgrade request Handle is given and its response

vars == << client, connected, closing, connClosed, wlock, dlock, pc, out, err, ccode,
           calls, wdata, wmode, wframe, wmask, rx, ev, inbound, peer, wire, delivered,
           hcalls, failsLeft, config, norms, opened, handshake >>

Receiver == "r"
Writers == {"w1", "w2"}
Closers == {"c1", "c2"}
\* the task that calls Dial or Handle
Dialer == "d"
Tasks == {Receiver, Dialer} \cup Writers \cup Closers

\* keys rmask() may return (uws.go:645-649)
KeyA == <<1, 2, 3, 4>>
KeyB == <<255, 16, 0, 129>>
Keys == {KeyA, KeyB}

\* arguments of Write
WriteInputs ==
    { [mode |-> WEBSOCKET_OPCODE_TEXT, data |-> <<65, 66, 67>>],
      [mode |-> WEBSOCKET_OPCODE_BLOB, data |-> <<195, 40, 0, 255, 7>>],
      [mode |-> WEBSOCKET_OPCODE_PING, data |-> <<65>>],
      [mode |-> WEBSOCKET_OPCODE_TEXT, data |-> <<>>] }

\* arguments of Close
CloseCodes == {0, 1000}

Top(t) == Head(pc[t])

\* the innermost call of t returns
Return(t) == [pc EXCEPT ![t] = Tail(pc[t])]

\* t moves on inside its innermost call
Goto(t, label) == [pc EXCEPT ![t] = <<label>> \o Tail(pc[t])]

\* t moves on to `label` and from there calls a function entered at `entry`
Call(t, entry, label) == [pc EXCEPT ![t] = <<entry, label>> \o Tail(pc[t])]

NoFrame == [bufs |-> <<>>, kind |-> "none", task |-> "none", call |-> 0, idx |-> 0, plain |-> <<>>]

\* a payload of send, with where it comes from and the plaintext it carries
MkFrame(bufs, kind, t, call, idx, plain) ==
    [bufs |-> bufs, kind |-> kind, task |-> t, call |-> call, idx |-> idx, plain |-> plain]

EvNone == [hdr |-> <<>>, msgs |-> <<>>, asm |-> <<>>]

\* history of the peer: n frames or messages sent; sent, the messages it has
\* completed that are not delivered yet; cur, the message it has begun; valid,
\* all it sent is allowed by RFC 6455 and within MessageSize; clean, all it
\* sent are messages passed to Write that the socket is to deliver; inter,
\* the control frames it has sent inside a message ("none", "ping" for PINGs
\* only, "other"); ended, it has sent a CLOSE or completed a TEXT that is not
\* UTF-8, after which the socket is to close; over, why the socket is to
\* refuse a frame for its length ("none", "zero", "ctl", "msg"); pings, the
\* payloads of the PINGs it has sent; closed, the code of the CLOSE it has
\* sent; declared, the payload length of the long frame it has sent; stream,
\* the bytes it has put on conn in one go
PeerInit ==
    [n |-> 0, sent |-> <<>>, cur |-> <<>>, valid |-> TRUE, clean |-> TRUE,
     inter |-> "none", ended |-> FALSE, over |-> "none", pings |-> <<>>, closed |-> <<>>,
     declared |-> <<>>, stream |-> <<>>]

\* no upgrade request: the Socket is there already, or is not asked for
NoHandshake ==
    [header |-> <<>>, Protocols |-> <<>>, NeedProtocol |-> FALSE, status |-> 0, protocol |-> <<>>]

\* one normalisation of a Config, for the history
Norm(isClient, c) ==
    [by |-> IF isClient THEN "Dial" ELSE "Handle", from |-> c, to |-> Normalised(isClient, c)]

\* the Socket as Dial (client) or Handle (server) constructs it
\* (uws.go:236-238, 331-333) from one of the Configs `supplied`, the receive
\* task spawned; `active` are the caller tasks, `budget` the stream writes
\* that may fail.  The Dialer, when active, is about to run line 239 or 334
InitOf(active, budget, supplied) ==
    /\ client \in BOOLEAN
    /\ \E c \in supplied :
          /\ config = Normalised(client, c)
          /\ norms = << Norm(client, c) >>
    /\ opened = FALSE
    /\ handshake = NoHandshake
    /\ connected = TRUE
    /\ closing = FALSE
    /\ connClosed = FALSE
    /\ wlock = "none"
    /\ dlock = "none"
    /\ pc = [t \in Tasks |-> IF t = Receiver THEN <<"R_read">>
                             ELSE IF t \notin active THEN <<"off">>
                             ELSE IF t = Dialer THEN <<"D_open">> ELSE <<"idle">>]
    /\ out = [t \in Tasks |-> NoFrame]
    /\ err = [t \in Tasks |-> FALSE]
    /\ ccode = [t \in Tasks |-> 0]
    /\ calls = [t \in Tasks |-> 0]
    /\ wdata = [t \in Tasks |-> <<>>]
    /\ wmode = [t \in Tasks |-> 0]
    /\ wframe = [t \in Tasks |-> 0]
    /\ wmask = [t \in Tasks |-> <<>>]
    /\ rx = RxInit
    /\ ev = EvNone
    /\ inbound = <<>>
    /\ peer = PeerInit
    /\ wire = <<>>
    /\ delivered = <<>>
    /\ hcalls = <<>>
    /\ failsLeft = budget

\* a Config whose ProbeTimeout is one second and whose InactiveTimeout is
\* InactiveProbes times as long
ProbeConfig ==
    [ZeroConfig EXCEPT !.ProbeTimeout = Second, !.InactiveTimeout = InactiveProbes * Second]

\* the same, from ProbeConfig
InitWith(active, budget) == InitOf(active, budget, {ProbeConfig})

(* ------------------------------------------------------------------ *)
(* Dial and Handle after the Socket is built (uws.go:239-241, 334-336)  *)
(* ------------------------------------------------------------------ *)
\* config.OpenHandler(ws), run by the caller of Dial or Handle after it has
\* spawned the receive task at line 238 or 333
OpenHandler ==
    /\ Top(Dialer) = "D_open"
    /\ opened' = TRUE
    /\ pc' = Goto(Dialer, "D_done")
    /\ UNCHANGED << client, connected, closing, connClosed, wlock, dlock, out, err, ccode,
                    calls, wdata, wmode, wframe, wmask, rx, ev, inbound, peer, wire,
                    delivered, hcalls, failsLeft, config, norms, handshake >>

(* ------------------------------------------------------------------ *)
(* Socket.send (uws.go:430-447)                                         *)
(* ------------------------------------------------------------------ *)
\* lines 431-433: not connected, return the error
SendCheck(t) ==
    /\ Top(t) = "S_check"
    /\ IF ~connected
       THEN /\ err' = [err EXCEPT ![t] = TRUE]
            /\ pc' = Return(t)
       ELSE /\ pc' = Goto(t, "S_lock")
            /\ UNCHANGED err
    /\ UNCHANGED << client, connected, closing, connClosed, wlock, dlock, out, ccode,
                    calls, wdata, wmode, wframe, wmask, rx, ev, inbound, peer, wire,
                    delivered, hcalls, failsLeft, config, norms, opened, handshake >>

\* line 434
SendLock(t) ==
    /\ Top(t) = "S_lock"
    /\ wlock = "none"
    /\ wlock' = t
    /\ pc' = Goto(t, "S_write")
    /\ UNCHANGED << client, connected, closing, connClosed, dlock, out, err, ccode, calls,
                    wdata, wmode, wframe, wmask, rx, ev, inbound, peer, wire, delivered,
                    hcalls, failsLeft, config, norms, opened, handshake >>

\* lines 440, 443-446: the write succeeds
SendWriteOk(t) ==
    /\ Top(t) = "S_write"
    /\ ~connClosed
    /\ wire' = Append(wire, out[t] @@ [ok |-> TRUE])
    /\ wlock' = "none"
    /\ err' = [err EXCEPT ![t] = FALSE]
    /\ pc' = Return(t)
    /\ UNCHANGED << client, connected, closing, connClosed, dlock, out, ccode, calls,
                    wdata, wmode, wframe, wmask, rx, ev, inbound, peer, delivered, hcalls,
                    failsLeft, config, norms, opened, handshake >>

\* a failed write that calls Close(0) with wlock still held
SendWriteFailLocked(t) ==
    /\ Top(t) = "S_write"
    /\ connClosed \/ failsLeft > 0
    /\ failsLeft' = IF connClosed THEN failsLeft ELSE failsLeft - 1
    /\ wire' = Append(wire, out[t] @@ [ok |-> FALSE])
    /\ ccode' = [ccode EXCEPT ![t] = 0]
    /\ pc' = Call(t, "C_lock", "S_ret")
    /\ UNCHANGED << client, connected, closing, connClosed, wlock, dlock, out, err, calls,
                    wdata, wmode, wframe, wmask, rx, ev, inbound, peer, delivered, hcalls,
                    config, norms, opened, handshake >>

\* a send that returns the error of the stream without calling Close
SendWriteFailQuiet(t) ==
    /\ Top(t) = "S_write"
    /\ connClosed \/ failsLeft > 0
    /\ failsLeft' = IF connClosed THEN failsLeft ELSE failsLeft - 1
    /\ wire' = Append(wire, out[t] @@ [ok |-> FALSE])
    /\ wlock' = "none"
    /\ ccode' = [ccode EXCEPT ![t] = 0]
    /\ pc' = Goto(t, "S_ret")
    /\ UNCHANGED << client, connected, closing, connClosed, dlock, out, err, calls, wdata,
                    wmode, wframe, wmask, rx, ev, inbound, peer, delivered, hcalls, config,
                    norms, opened, handshake >>

\* lines 440-442: the write fails, Close(0) is called
SendWriteFail(t) ==
    /\ Top(t) = "S_write"
    /\ connClosed \/ failsLeft > 0
    /\ failsLeft' = IF connClosed THEN failsLeft ELSE failsLeft - 1
    /\ wire' = Append(wire, out[t] @@ [ok |-> FALSE])
    /\ wlock' = "none"
    /\ ccode' = [ccode EXCEPT ![t] = 0]
    /\ pc' = Call(t, "C_lock", "S_ret")
    /\ UNCHANGED << client, connected, closing, connClosed, dlock, out, err, calls, wdata,
                    wmode, wframe, wmask, rx, ev, inbound, peer, delivered, hcalls, config,
                    norms, opened, handshake >>

\* line 446 after the Close(0) of line 442
SendReturn(t) ==
    /\ Top(t) = "S_ret"
    /\ err' = [err EXCEPT ![t] = TRUE]
    /\ pc' = Return(t)
    /\ UNCHANGED << client, connected, closing, connClosed, wlock, dlock, out, ccode,
                    calls, wdata, wmode, wframe, wmask, rx, ev, inbound, peer, wire,
                    delivered, hcalls, failsLeft, config, norms, opened, handshake >>

(* ------------------------------------------------------------------ *)
(* Socket.Close (uws.go:401-428)                                        *)
(* ------------------------------------------------------------------ *)
\* a caller task calls Close(code)
CloseCall(t, code) ==
    /\ t \in Closers
    /\ pc[t] = <<"idle">>
    /\ calls[t] < MaxCalls
    /\ calls' = [calls EXCEPT ![t] = @ + 1]
    /\ ccode' = [ccode EXCEPT ![t] = code]
    /\ pc' = Call(t, "C_lock", "idle")
    /\ UNCHANGED << client, connected, closing, connClosed, wlock, dlock, out, err, wdata,
                    wmode, wframe, wmask, rx, ev, inbound, peer, wire, delivered, hcalls,
                    failsLeft, config, norms, opened, handshake >>

\* a Close that runs the handler whatever closing and connected are
CloseLockAlways(t) ==
    /\ Top(t) = "C_lock"
    /\ closing' = TRUE
    /\ pc' = Goto(t, "C_handler")
    /\ UNCHANGED << client, connected, connClosed, wlock, dlock, out, err, ccode, calls,
                    wdata, wmode, wframe, wmask, rx, ev, inbound, peer, wire, delivered,
                    hcalls, failsLeft, config, norms, opened, handshake >>

\* a Close that clears connected where it sets closing
CloseLockClears(t) ==
    /\ Top(t) = "C_lock"
    /\ IF ~closing /\ connected
       THEN /\ closing' = TRUE
            /\ connected' = FALSE
            /\ pc' = Goto(t, "C_handler")
       ELSE /\ pc' = Return(t)
            /\ UNCHANGED << closing, connected >>
    /\ UNCHANGED << client, connClosed, wlock, dlock, out, err, ccode, calls, wdata, wmode,
                    wframe, wmask, rx, ev, inbound, peer, wire, delivered, hcalls,
                    failsLeft, config, norms, opened, handshake >>

\* lines 402-405 and 425-427: the section under clock
CloseLock(t) ==
    /\ Top(t) = "C_lock"
    /\ IF ~closing /\ connected
       THEN /\ closing' = TRUE
            /\ pc' = Goto(t, "C_handler")
       ELSE /\ pc' = Return(t)
            /\ UNCHANGED closing
    /\ UNCHANGED << client, connected, connClosed, wlock, dlock, out, err, ccode, calls,
                    wdata, wmode, wframe, wmask, rx, ev, inbound, peer, wire, delivered,
                    hcalls, failsLeft, config, norms, opened, handshake >>

\* lines 406-408
CloseHandler(t) ==
    /\ Top(t) = "C_handler"
    /\ hcalls' = Append(hcalls, [task |-> t, code |-> ccode[t], connected |-> connected,
                                 opened |-> opened])
    /\ pc' = Goto(t, "C_send")
    /\ UNCHANGED << client, connected, closing, connClosed, wlock, dlock, out, err, ccode,
                    calls, wdata, wmode, wframe, wmask, rx, ev, inbound, peer, wire,
                    delivered, failsLeft, config, norms, opened, handshake >>

\* lines 409-422: build the CLOSE frame and call send
CloseSend(t, key) ==
    /\ Top(t) = "C_send"
    /\ out' = [out EXCEPT ![t] =
                 MkFrame(CloseFrame(client, ccode[t], key), "close", t, 0, 0,
                         IF ccode[t] # 0 THEN PutUint16(ccode[t] % 65536) ELSE <<>>)]
    /\ pc' = Call(t, "S_check", "C_clear")
    /\ UNCHANGED << client, connected, closing, connClosed, wlock, dlock, err, ccode,
                    calls, wdata, wmode, wframe, wmask, rx, ev, inbound, peer, wire,
                    delivered, hcalls, failsLeft, config, norms, opened, handshake >>

\* a Close that gives up closing when it is done
CloseClearReopen(t) ==
    /\ Top(t) = "C_clear"
    /\ connected' = FALSE
    /\ closing' = FALSE
    /\ pc' = Goto(t, "C_conn")
    /\ UNCHANGED << client, connClosed, wlock, dlock, out, err, ccode, calls, wdata, wmode,
                    wframe, wmask, rx, ev, inbound, peer, wire, delivered, hcalls,
                    failsLeft, config, norms, opened, handshake >>

\* line 423
CloseClear(t) ==
    /\ Top(t) = "C_clear"
    /\ connected' = FALSE
    /\ pc' = Goto(t, "C_conn")
    /\ UNCHANGED << client, closing, connClosed, wlock, dlock, out, err, ccode, calls,
                    wdata, wmode, wframe, wmask, rx, ev, inbound, peer, wire, delivered,
                    hcalls, failsLeft, config, norms, opened, handshake >>

\* line 424
CloseConn(t) ==
    /\ Top(t) = "C_conn"
    /\ connClosed' = TRUE
    /\ pc' = Return(t)
    /\ UNCHANGED << client, connected, closing, wlock, dlock, out, err, ccode, calls,
                    wdata, wmode, wframe, wmask, rx, ev, inbound, peer, wire, delivered,
                    hcalls, failsLeft, config, norms, opened, handshake >>

(* ------------------------------------------------------------------ *)
(* Socket.Write (uws.go:351-399)                                        *)
(* ------------------------------------------------------------------ *)
\* a caller task calls Write(mode, data); line 355 makes it a no-op unless
\* mode is TEXT or BLOB and data is not empty
WriteCall(t, in) ==
    /\ t \in Writers
    /\ pc[t] = <<"idle">>
    /\ calls[t] < MaxCalls
    /\ calls' = [calls EXCEPT ![t] = @ + 1]
    /\ wdata' = [wdata EXCEPT ![t] = in.data]
    /\ wmode' = [wmode EXCEPT ![t] = in.mode]
    /\ wframe' = [wframe EXCEPT ![t] = 0]
    /\ err' = [err EXCEPT ![t] = FALSE]
    /\ IF (in.mode = WEBSOCKET_OPCODE_TEXT \/ in.mode = WEBSOCKET_OPCODE_BLOB) /\ Len(in.data) > 0
       THEN pc' = Call(t, "W_lock", "idle")
       ELSE pc' = pc
    /\ UNCHANGED << client, connected, closing, connClosed, wlock, dlock, out, ccode,
                    wmask, rx, ev, inbound, peer, wire, delivered, hcalls, failsLeft,
                    config, norms, opened, handshake >>

\* a Write that does not wait for dlock
WriteNoLock(t) ==
    /\ Top(t) = "W_lock"
    /\ dlock' = t
    /\ wframe' = [wframe EXCEPT ![t] = 1]
    /\ pc' = Goto(t, "W_frame")
    /\ UNCHANGED << client, connected, closing, connClosed, wlock, out, err, ccode, calls,
                    wdata, wmode, wmask, rx, ev, inbound, peer, wire, delivered, hcalls,
                    failsLeft, config, norms, opened, handshake >>

\* line 356
WriteLock(t) ==
    /\ Top(t) = "W_lock"
    /\ dlock = "none"
    /\ dlock' = t
    /\ wframe' = [wframe EXCEPT ![t] = 1]
    /\ pc' = Goto(t, "W_frame")
    /\ UNCHANGED << client, connected, closing, connClosed, wlock, out, err, ccode, calls,
                    wdata, wmode, wmask, rx, ev, inbound, peer, wire, delivered, hcalls,
                    failsLeft, config, norms, opened, handshake >>

\* lines 363-389: build fragment `frame`, masking data in place on a client,
\* and call send
WriteFragment(t, key) ==
    /\ Top(t) = "W_frame"
    /\ LET frame  == wframe[t]
           offset == FragOffset(frame, FragmentSize)
           size   == FragSize(Len(wdata[t]), frame, FragmentSize)
           data   == IF client THEN XorInPlace(key, wdata[t], offset, size) ELSE wdata[t]
       IN  /\ wmask' = [wmask EXCEPT ![t] = IF client THEN key ELSE @]
           /\ wdata' = [wdata EXCEPT ![t] = data]
           /\ out' = [out EXCEPT ![t] =
                        MkFrame(WriteFrame(client, wmode[t], data, frame, FragmentSize, key),
                                "data", t, calls[t], frame,
                                Slice(wdata[t], offset, offset + size))]
    /\ pc' = Call(t, "S_check", "W_sent")
    /\ UNCHANGED << client, connected, closing, connClosed, wlock, dlock, err, ccode,
                    calls, wmode, wframe, rx, ev, inbound, peer, wire, delivered, hcalls,
                    failsLeft, config, norms, opened, handshake >>

\* a Write that returns the error of send before it unmasks the fragment
WriteSentNoRestore(t) ==
    /\ Top(t) = "W_sent"
    /\ LET frame  == wframe[t]
           offset == FragOffset(frame, FragmentSize)
           size   == FragSize(Len(wdata[t]), frame, FragmentSize)
       IN  wdata' = [wdata EXCEPT ![t] =
                       IF client /\ ~err[t] THEN XorInPlace(wmask[t], @, offset, size) ELSE @]
    /\ IF err[t] \/ wframe[t] >= Frames(Len(wdata[t]), FragmentSize)
       THEN /\ dlock' = "none"
            /\ pc' = Return(t)
            /\ UNCHANGED wframe
       ELSE /\ wframe' = [wframe EXCEPT ![t] = @ + 1]
            /\ pc' = Goto(t, "W_frame")
            /\ UNCHANGED dlock
    /\ UNCHANGED << client, connected, closing, connClosed, wlock, out, err, ccode, calls,
                    wmode, wmask, rx, ev, inbound, peer, wire, delivered, hcalls,
                    failsLeft, config, norms, opened, handshake >>

\* lines 390-396 and the deferred unlock of line 357
WriteSent(t) ==
    /\ Top(t) = "W_sent"
    /\ LET frame  == wframe[t]
           offset == FragOffset(frame, FragmentSize)
           size   == FragSize(Len(wdata[t]), frame, FragmentSize)
       IN  wdata' = [wdata EXCEPT ![t] =
                       IF client THEN XorInPlace(wmask[t], @, offset, size) ELSE @]
    /\ IF err[t] \/ wframe[t] >= Frames(Len(wdata[t]), FragmentSize)
       THEN /\ dlock' = "none"
            /\ pc' = Return(t)
            /\ UNCHANGED wframe
       ELSE /\ wframe' = [wframe EXCEPT ![t] = @ + 1]
            /\ pc' = Goto(t, "W_frame")
            /\ UNCHANGED dlock
    /\ UNCHANGED << client, connected, closing, connClosed, wlock, out, err, ccode, calls,
                    wmode, wmask, rx, ev, inbound, peer, wire, delivered, hcalls,
                    failsLeft, config, norms, opened, handshake >>

(* ------------------------------------------------------------------ *)
(* Socket.receive (uws.go:449-643)                                      *)
(* ------------------------------------------------------------------ *)
\* lines 473-482: a read returns n > 0 bytes
RecvData(n) ==
    /\ Top(Receiver) = "R_read"
    /\ ~connClosed
    /\ n \in 1..Len(inbound)
    /\ rx' = [rx EXCEPT !.buffer = @ \o Slice(inbound, 0, n), !.idle = 0]
    /\ ev' = EvNone
    /\ inbound' = Drop(inbound, n)
    /\ pc' = Goto(Receiver, "R_parse")
    /\ UNCHANGED << client, connected, closing, connClosed, wlock, dlock, out, err, ccode,
                    calls, wdata, wmode, wframe, wmask, peer, wire, delivered, hcalls,
                    failsLeft, config, norms, opened, handshake >>

\* lines 618-627: the read times out, a PING is sent
RecvTimeout(key) ==
    /\ Top(Receiver) = "R_read"
    /\ ~connClosed
    /\ inbound = <<>>
    /\ rx' = [rx EXCEPT !.idle = @ + 1]
    /\ ev' = EvNone
    /\ out' = [out EXCEPT ![Receiver] =
                 MkFrame(PingFrame(client, key), "ping", Receiver, 0, 0, <<>>)]
    /\ pc' = Call(Receiver, "S_check", "R_ping")
    /\ UNCHANGED << client, connected, closing, connClosed, wlock, dlock, err, ccode,
                    calls, wdata, wmode, wframe, wmask, inbound, peer, wire, delivered,
                    hcalls, failsLeft, config, norms, opened, handshake >>

\* lines 628-633: the read fails otherwise, or returns no byte: conn is
\* closed, or the peer has gone after the bytes it sent were read
RecvError ==
    /\ Top(Receiver) = "R_read"
    /\ connClosed \/ inbound = <<>>
    /\ pc' = Goto(Receiver, "R_exit")
    /\ UNCHANGED << client, connected, closing, connClosed, wlock, dlock, out, err, ccode,
                    calls, wdata, wmode, wframe, wmask, rx, ev, inbound, peer, wire,
                    delivered, hcalls, failsLeft, config, norms, opened, handshake >>

\* history: the message handed to MessageHandler is the oldest one the peer
\* has completed and that is not delivered yet; the two are then dropped
\* from peer.sent and delivered
Matches(msgs) ==
    /\ msgs # <<>> /\ delivered = <<>> /\ peer.sent # <<>>
    /\ msgs[1] = peer.sent[1]

\* lines 483-615: one iteration of the inner loop, s.config.MessageSize being
\* msize
RecvParseAt(key, msize) ==
    /\ Top(Receiver) = "R_parse"
    /\ LET r == ParseIter(rx, client, msize)
       IN  /\ rx' = r.st
           /\ ev' = [hdr  |-> IF rx.size < 0 /\ Len(rx.buffer) >= 2 THEN rx.buffer ELSE <<>>,
                     msgs |-> r.msgs, asm |-> r.asm]
           /\ IF Matches(r.msgs)
              THEN /\ peer' = [peer EXCEPT !.sent = Tail(@)]
                   /\ delivered' = delivered
              ELSE /\ peer' = peer
                   /\ delivered' = delivered \o r.msgs
           /\ IF r.res = "pong"
              THEN /\ out' = [out EXCEPT ![Receiver] =
                                MkFrame(PongFrame(client, r.st.control, key), "pong",
                                        Receiver, 0, 0, r.st.control)]
                   /\ pc' = Call(Receiver, "S_check", "R_pong")
              ELSE /\ out' = out
                   /\ pc' = Goto(Receiver,
                                 CASE r.res = "cont" -> "R_parse"
                                   [] r.res = "break" -> "R_read"
                                   [] r.res = "close" -> "R_exit"
                                   [] r.res = "panic" -> "R_panic")
    /\ UNCHANGED << client, connected, closing, connClosed, wlock, dlock, err, ccode,
                    calls, wdata, wmode, wframe, wmask, inbound, wire, hcalls, failsLeft,
                    config, norms, opened, handshake >>

\* the same on the socket whose sizes are scaled down: s.config.MessageSize
\* is the bound MessageSize
RecvParse(key) == RecvParseAt(key, MessageSize)

\* lines 601-614, after the send of the PONG
RecvPonged ==
    /\ Top(Receiver) = "R_pong"
    /\ IF err[Receiver]
       THEN /\ pc' = Goto(Receiver, "R_exit")
            /\ UNCHANGED rx
       ELSE /\ rx' = [rx EXCEPT !.size = -1, !.control = <<>>]
            /\ pc' = Goto(Receiver, IF rx.buffer = <<>> THEN "R_read" ELSE "R_parse")
    /\ UNCHANGED << client, connected, closing, connClosed, wlock, dlock, out, err, ccode,
                    calls, wdata, wmode, wframe, wmask, ev, inbound, peer, wire, delivered,
                    hcalls, failsLeft, config, norms, opened, handshake >>

\* an inactivity test that lets one more read time out
ExpiredLate(idle) == (idle - 1) * config.ProbeTimeout >= config.InactiveTimeout

\* line 635 after `idle` reads in a row have timed out: each read waits
\* ProbeTimeout (line 471), and seen is the time of the last read that
\* returned bytes (line 481)
Expired(idle) == idle * config.ProbeTimeout >= config.InactiveTimeout

\* a probe loop that gives up after the first read that times out
RecvPingedOnce ==
    /\ Top(Receiver) = "R_ping"
    /\ pc' = Goto(Receiver, "R_exit")
    /\ UNCHANGED << client, connected, closing, connClosed, wlock, dlock, out, err, ccode,
                    calls, wdata, wmode, wframe, wmask, rx, ev, inbound, peer, wire,
                    delivered, hcalls, failsLeft, config, norms, opened, handshake >>

\* lines 625-627 and 635-637, after the send of the PING
RecvPinged ==
    /\ Top(Receiver) = "R_ping"
    /\ pc' = Goto(Receiver, IF err[Receiver] \/ Expired(rx.idle) THEN "R_exit" ELSE "R_read")
    /\ UNCHANGED << client, connected, closing, connClosed, wlock, dlock, out, err, ccode,
                    calls, wdata, wmode, wframe, wmask, rx, ev, inbound, peer, wire,
                    delivered, hcalls, failsLeft, config, norms, opened, handshake >>

\* lines 639-642
RecvExit ==
    /\ Top(Receiver) = "R_exit"
    /\ ccode' = [ccode EXCEPT ![Receiver] = rx.code]
    /\ pc' = Call(Receiver, "C_lock", "R_done")
    /\ UNCHANGED << client, connected, closing, connClosed, wlock, dlock, out, err, calls,
                    wdata, wmode, wframe, wmask, rx, ev, inbound, peer, wire, delivered,
                    hcalls, failsLeft, config, norms, opened, handshake >>

(* ------------------------------------------------------------------ *)
(* The peer: frames arriving on conn                                    *)
(* ------------------------------------------------------------------ *)
\* RFC 6455 masking of a payload
RfcMask(key, d) == [i \in 1..Len(d) |-> Xor8(d[i], key[((i - 1) % 4) + 1])]

RawFrame(fin, rsv, op, len7, ext, payload) ==
    [fin |-> fin, rsv |-> rsv, op |-> op, len7 |-> len7, ext |-> ext, payload |-> payload]

\* a frame with the minimal 7-bit length of its payload
Plain(fin, op, payload) == RawFrame(fin, 0, op, Len(payload), <<>>, payload)

\* the bytes of a raw frame, masked or not
RawBytes(f, masked, key) ==
    << f.fin * 128 + f.rsv * 16 + f.op, (IF masked THEN 128 ELSE 0) + f.len7 >>
        \o f.ext
        \o (IF masked THEN key \o RfcMask(key, f.payload) ELSE f.payload)

\* c is one well-formed UTF-8 byte sequence of RFC 3629, section 4
Utf8Char(c) ==
    LET tail(i) == c[i] \in 128..191
    IN  \/ Len(c) = 1 /\ c[1] \in 0..127
        \/ Len(c) = 2 /\ c[1] \in 194..223 /\ tail(2)
        \/ /\ Len(c) = 3 /\ tail(3)
           /\ \/ c[1] = 224 /\ c[2] \in 160..191
              \/ c[1] \in 225..236 /\ tail(2)
              \/ c[1] = 237 /\ c[2] \in 128..159
              \/ c[1] \in 238..239 /\ tail(2)
        \/ /\ Len(c) = 4 /\ tail(3) /\ tail(4)
           /\ \/ c[1] = 240 /\ c[2] \in 144..191
              \/ c[1] \in 241..243 /\ tail(2)
              \/ c[1] = 244 /\ c[2] \in 128..143

\* s is a sequence of well-formed UTF-8 byte sequences
RECURSIVE Rfc3629(_)
Rfc3629(s) ==
    \/ s = <<>>
    \/ \E k \in 1..4 :
          k <= Len(s) /\ Utf8Char(SubSeq(s, 1, k)) /\ Rfc3629(SubSeq(s, k + 1, Len(s)))

\* a payload one byte longer than the largest message the socket accepts
TooLong == [i \in 1..(MessageSize + 1) |-> 65]

\* data frames RFC 6455 allows
DataMenu ==
    { Plain(fin, WEBSOCKET_OPCODE_TEXT, p) : fin \in {0, 1}, p \in { <<65>>, <<195>> } }
    \cup { Plain(fin, 0, p) : fin \in {0, 1}, p \in { <<169>>, <<66, 67>> } }
    \cup { Plain(1, WEBSOCKET_OPCODE_BLOB, <<195>>), Plain(0, WEBSOCKET_OPCODE_BLOB, <<65>>) }

\* control frames RFC 6455 allows
ControlMenu ==
    { Plain(1, WEBSOCKET_OPCODE_PING, <<>>), Plain(1, WEBSOCKET_OPCODE_PING, <<65, 66>>),
      Plain(1, WEBSOCKET_OPCODE_PONG, <<65>>),
      Plain(1, WEBSOCKET_OPCODE_CLOSE, <<>>), Plain(1, WEBSOCKET_OPCODE_CLOSE, <<3, 232>>) }

\* frames RFC 6455 forbids, or that are too long for the socket
RejectMenu ==
    { Plain(1, WEBSOCKET_OPCODE_TEXT, <<>>), Plain(0, WEBSOCKET_OPCODE_BLOB, <<>>),
      Plain(0, WEBSOCKET_OPCODE_PING, <<>>), Plain(0, WEBSOCKET_OPCODE_CLOSE, <<>>),
      Plain(1, 3, <<65>>), Plain(1, 11, <<65>>), Plain(0, 15, <<>>),
      RawFrame(1, 4, WEBSOCKET_OPCODE_TEXT, 1, <<>>, <<65>>),
      RawFrame(1, 2, WEBSOCKET_OPCODE_BLOB, 1, <<>>, <<65>>),
      RawFrame(1, 1, WEBSOCKET_OPCODE_PING, 0, <<>>, <<>>),
      RawFrame(1, 0, WEBSOCKET_OPCODE_PING, 126, <<0, 126>>, <<>>),
      RawFrame(1, 0, WEBSOCKET_OPCODE_PONG, 127, <<255, 255, 255, 255, 255, 255, 255, 255>>, <<>>),
      RawFrame(1, 0, WEBSOCKET_OPCODE_TEXT, 126, <<7, 208>>, <<>>),
      RawFrame(1, 0, WEBSOCKET_OPCODE_TEXT, 127, <<255, 255, 255, 255, 255, 255, 255, 255>>, <<>>),
      Plain(0, WEBSOCKET_OPCODE_TEXT, TooLong),
      Plain(1, 0, TooLong) }

RawMenu == DataMenu \cup ControlMenu \cup RejectMenu

\* the length a frame declares is above `limit`; a 64-bit length with its top
\* bit set is above any limit
DeclaresOver(f, limit) ==
    IF f.len7 = 126 THEN Uint16(f.ext) > limit
    ELSE IF f.len7 = 127 THEN f.ext[1] >= 128 \/ Uint64AsInt(f.ext) > limit
    ELSE f.len7 > limit

CurLen(p) == IF p.cur = <<>> THEN 0 ELSE Len(p.cur[1].data)

\* RFC 6455 allows the peer to send the header of f, masked or not, now
Sequenced(f, masked, p) ==
    /\ f.rsv = 0
    /\ masked = ~client
    /\ f.op \in {0, 1, 2, 8, 9, 10}
    /\ (f.op >= 8 => f.fin = 1)
    /\ (f.op \in {1, 2} => p.cur = <<>>)
    /\ (f.op = 0 => p.cur # <<>>)
    /\ ~p.ended

\* f is moreover one the socket is to accept
WellFormed(f, masked, p) ==
    /\ Sequenced(f, masked, p)
    /\ f.ext = <<>> /\ f.len7 = Len(f.payload)
    /\ (f.op <= 2 => Len(f.payload) >= 1 /\ CurLen(p) + Len(f.payload) <= MessageSize)

\* f is a frame the socket is to refuse for its length only: "zero" for an
\* empty TEXT or BLOB frame, "ctl" for a control frame declaring more than
\* 125 bytes, "msg" for a data frame that takes its message above
\* MessageSize, declared in its header when final and if not with all of
\* its bytes sent
Oversize(f, masked, p) ==
    IF ~Sequenced(f, masked, p) THEN "none"
    ELSE IF f.op \in {1, 2} /\ f.len7 = 0 THEN "zero"
    ELSE IF f.op >= 8 /\ DeclaresOver(f, 125) THEN "ctl"
    ELSE IF /\ f.op <= 2
            /\ DeclaresOver(f, MessageSize - CurLen(p))
            /\ \/ (f.fin = 1 /\ DeclaresOver(f, MessageSize))
               \/ (f.ext = <<>> /\ f.len7 = Len(f.payload))
    THEN "msg"
    ELSE "none"

\* the status code a CLOSE payload carries: its first two bytes in network
\* order, and none (0) when it is shorter
CloseCode(payload) == IF Len(payload) >= 2 THEN payload[1] * 256 + payload[2] ELSE 0

\* the history of a peer that has left the protocol
Strayed(p) ==
    IF p.over # "none" THEN [p EXCEPT !.n = @ + 1]
    ELSE [PeerInit EXCEPT !.n = p.n + 1, !.valid = FALSE, !.clean = FALSE]

\* the history of the peer after it has sent f
PeerAfter(p, f, masked) ==
    IF ~p.valid THEN Strayed(p)
    ELSE IF WellFormed(f, masked, p)
    THEN LET cur == IF f.op > 2 THEN p.cur
                    ELSE IF f.op = 0
                    THEN << [mode |-> p.cur[1].mode, data |-> p.cur[1].data \o f.payload] >>
                    ELSE << [mode |-> f.op, data |-> f.payload] >>
             done == f.op <= 2 /\ f.fin = 1
             mid  == f.op > 2 /\ p.cur # <<>>
         IN  [p EXCEPT !.n = @ + 1, !.clean = FALSE,
                       !.cur = IF done THEN <<>> ELSE cur,
                       !.sent = IF done THEN Append(@, cur[1]) ELSE @,
                       !.pings = IF f.op = WEBSOCKET_OPCODE_PING THEN Append(@, f.payload) ELSE @,
                       !.closed = IF f.op = WEBSOCKET_OPCODE_CLOSE
                                  THEN << CloseCode(f.payload) >> ELSE @,
                       !.ended = \/ f.op = WEBSOCKET_OPCODE_CLOSE
                                 \/ (done /\ cur[1].mode = WEBSOCKET_OPCODE_TEXT
                                          /\ ~Rfc3629(cur[1].data)),
                       !.inter = IF ~mid THEN @
                                 ELSE IF f.op = WEBSOCKET_OPCODE_PING /\ @ # "other" THEN "ping"
                                 ELSE "other"]
    ELSE IF Oversize(f, masked, p) # "none"
    THEN [p EXCEPT !.n = @ + 1, !.valid = FALSE, !.clean = FALSE, !.cur = <<>>,
                   !.over = Oversize(f, masked, p)]
    ELSE Strayed(p)

\* the peer sends one frame
PeerFrame(f, masked, key) ==
    /\ Top(Receiver) = "R_read"
    /\ ~connClosed
    /\ peer.n < MaxFrames
    /\ Len(inbound) <= MaxPending
    /\ inbound' = inbound \o RawBytes(f, masked, key)
    /\ peer' = PeerAfter(peer, f, masked)
    /\ UNCHANGED << client, connected, closing, connClosed, wlock, dlock, pc, out, err,
                    ccode, calls, wdata, wmode, wframe, wmask, rx, ev, wire, delivered,
                    hcalls, failsLeft, config, norms, opened, handshake >>

\* messages the peer passes to Write
PeerInputs ==
    { [mode |-> WEBSOCKET_OPCODE_TEXT, data |-> <<65>>],
      [mode |-> WEBSOCKET_OPCODE_TEXT, data |-> <<65, 195, 169>>],
      [mode |-> WEBSOCKET_OPCODE_TEXT, data |-> <<195, 40>>],
      [mode |-> WEBSOCKET_OPCODE_TEXT, data |-> <<65, 66, 195>>],
      [mode |-> WEBSOCKET_OPCODE_BLOB, data |-> <<195, 40, 0>>],
      [mode |-> WEBSOCKET_OPCODE_BLOB, data |-> TooLong] }

\* the bytes Write of the peer endpoint (of the opposite role) puts on the
\* stream for a message: fragments frame..last
RECURSIVE WriteBytes(_, _, _, _, _, _)
WriteBytes(isClient, mode, data, frame, k1, k2) ==
    IF frame > Frames(Len(data), FragmentSize) THEN <<>>
    ELSE LET key == IF frame % 2 = 1 THEN k1 ELSE k2
             offset == FragOffset(frame, FragmentSize)
             size == FragSize(Len(data), frame, FragmentSize)
             masked == IF isClient THEN XorInPlace(key, data, offset, size) ELSE data
         IN  Flatten(WriteFrame(isClient, mode, masked, frame, FragmentSize, key))
                 \o WriteBytes(isClient, mode, data, frame + 1, k1, k2)

\* the message is one the socket is to deliver
Deliverable(in) ==
    /\ Len(in.data) >= 1 /\ Len(in.data) <= MessageSize
    /\ (in.mode = WEBSOCKET_OPCODE_TEXT => Rfc3629(in.data))

\* the peer endpoint calls Write(in.mode, in.data) and all its sends succeed
PeerWrite(in, k1, k2) ==
    /\ Top(Receiver) = "R_read"
    /\ ~connClosed
    /\ peer.n < MaxFrames
    /\ Len(inbound) <= MaxPending
    /\ peer.cur = <<>>
    /\ inbound' = inbound \o WriteBytes(~client, in.mode, in.data, 1, k1, k2)
    /\ peer' = IF ~peer.valid \/ peer.ended THEN Strayed(peer)
               ELSE IF Len(in.data) > MessageSize
               THEN [peer EXCEPT !.n = @ + 1, !.valid = FALSE, !.clean = FALSE, !.over = "msg"]
               ELSE [peer EXCEPT !.n = @ + 1, !.sent = Append(@, in),
                                 !.clean = @ /\ Deliverable(in),
                                 !.ended = ~Deliverable(in)]
    /\ UNCHANGED << client, connected, closing, connClosed, wlock, dlock, pc, out, err,
                    ccode, calls, wdata, wmode, wframe, wmask, rx, ev, wire, delivered,
                    hcalls, failsLeft, config, norms, opened, handshake >>

(* ------------------------------------------------------------------ *)
(* Specifications                                                       *)
(* ------------------------------------------------------------------ *)
\* the receive task alone against a peer that sends any frames; reads do not
\* time out and stream writes succeed while conn is open
InitRecv == InitWith({}, 0)

NextRecv ==
    \/ \E f \in RawMenu : PeerFrame(f, ~client, KeyA)
    \/ PeerFrame(Plain(1, WEBSOCKET_OPCODE_TEXT, <<65>>), client, KeyA)
    \/ \E in \in PeerInputs, k1 \in Keys : PeerWrite(in, k1, CHOOSE k2 \in Keys : k2 # k1)
    \/ \E n \in 1..Len(inbound) : RecvData(n)
    \/ RecvError
    \/ RecvParse(KeyB)
    \/ RecvPonged
    \/ RecvExit
    \/ SendCheck(Receiver)
    \/ SendLock(Receiver)
    \/ SendWriteOk(Receiver)
    \/ CloseLock(Receiver)
    \/ CloseHandler(Receiver)
    \/ CloseSend(Receiver, KeyB)
    \/ CloseClear(Receiver)
    \/ CloseConn(Receiver)

SpecRecv == InitRecv /\ [][NextRecv]_vars

\* Close called by two tasks while a third writes and the receive task
\* exits; MaxFail stream writes may fail while conn is open
InitClose == InitWith(Closers \cup {"w1"}, MaxFail)

NextClose ==
    \/ RecvError
    \/ RecvExit
    \/ \E t \in Tasks :
        \/ SendCheck(t)
        \/ SendLock(t)
        \/ SendWriteOk(t)
        \/ SendWriteFail(t)
        \/ SendReturn(t)
        \/ CloseLock(t)
        \/ CloseHandler(t)
        \/ CloseSend(t, KeyB)
        \/ CloseClear(t)
        \/ CloseConn(t)
        \/ \E code \in CloseCodes : CloseCall(t, code)
        \/ \E in \in WriteInputs : WriteCall(t, in)
        \/ WriteLock(t)
        \/ WriteFragment(t, KeyA)
        \/ WriteSent(t)

SpecClose == InitClose /\ [][NextClose]_vars

\* two tasks call Write while the receive task may exit; MaxFail stream
\* writes may fail while conn is open
InitWrite == InitWith(Writers, MaxFail)

NextWrite ==
    \/ RecvError
    \/ RecvExit
    \/ \E t \in Tasks :
        \/ SendCheck(t)
        \/ SendLock(t)
        \/ SendWriteOk(t)
        \/ SendWriteFail(t)
        \/ SendReturn(t)
        \/ CloseLock(t)
        \/ CloseHandler(t)
        \/ CloseSend(t, KeyB)
        \/ CloseClear(t)
        \/ CloseConn(t)
        \/ \E in \in WriteInputs : WriteCall(t, in)
        \/ WriteLock(t)
        \/ \E key \in Keys : WriteFragment(t, key)
        \/ WriteSent(t)

SpecWrite == InitWrite /\ [][NextWrite]_vars

\* one task calls Write while the receive task answers the PINGs of the peer
\* and probes it when reads time out; stream writes succeed while conn is open
InitProbe == InitWith({"w1"}, 0)

NextProbe ==
    \/ \E p \in { <<>>, <<65, 66>> } :
          PeerFrame(Plain(1, WEBSOCKET_OPCODE_PING, p), ~client, KeyA)
    \/ RecvData(Len(inbound))
    \/ RecvTimeout(KeyB)
    \/ RecvError
    \/ RecvParse(KeyB)
    \/ RecvPonged
    \/ RecvPinged
    \/ RecvExit
    \/ \E t \in Tasks :
        \/ SendCheck(t)
        \/ SendLock(t)
        \/ SendWriteOk(t)
        \/ SendWriteFail(t)
        \/ SendReturn(t)
        \/ CloseLock(t)
        \/ CloseHandler(t)
        \/ CloseSend(t, KeyB)
        \/ CloseClear(t)
        \/ CloseConn(t)
        \/ \E in \in WriteInputs : WriteCall(t, in)
        \/ WriteLock(t)
        \/ WriteFragment(t, KeyA)
        \/ WriteSent(t)

SpecProbe == InitProbe /\ [][NextProbe]_vars

\* a step of task t inside send or Close
CallStep(t) ==
    \/ SendCheck(t)
    \/ SendLock(t)
    \/ SendWriteOk(t)
    \/ CloseLock(t)
    \/ CloseHandler(t)
    \/ CloseSend(t, KeyB)
    \/ CloseClear(t)
    \/ CloseConn(t)

\* a step of the receive task after the send of its PING, on its way out
\* of the loop, or inside send or Close
RunOn ==
    \/ RecvPinged
    \/ RecvExit
    \/ CallStep(Receiver)

\* a step of the receive task while the peer stays connected
RecvStep ==
    \/ \E n \in 1..Len(inbound) : RecvData(n)
    \/ RecvTimeout(KeyB)
    \/ RecvParse(KeyB)
    \/ RecvPonged
    \/ RunOn

\* Configs of the keepalive and inactivity scenarios: ProbeTimeout of one
\* second, InactiveTimeout of three seconds, and the two together
IdleConfigs ==
    { ProbeConfig,
      [ZeroConfig EXCEPT !.ProbeTimeout = Second],
      [ZeroConfig EXCEPT !.InactiveTimeout = 3 * Second],
      [ZeroConfig EXCEPT !.ProbeTimeout = Second, !.InactiveTimeout = 3 * Second] }

\* the receive task probing a peer that stays connected, sends PINGs and
\* PONGs or stays silent; nobody else calls Close and stream writes succeed.
\* The receive task is scheduled while it is not waiting in a read, and its
\* stream writes return (within WriteTimeout, line 438)
InitIdle == InitOf({}, 0, IdleConfigs)

NextIdle ==
    \/ \E p \in { <<>>, <<65>> } : PeerFrame(Plain(1, WEBSOCKET_OPCODE_PONG, p), ~client, KeyA)
    \/ PeerFrame(Plain(1, WEBSOCKET_OPCODE_PING, <<>>), ~client, KeyA)
    \/ RecvStep

SpecIdle == InitIdle /\ [][NextIdle]_vars /\ WF_vars(RunOn)


\* Dial or Handle has built the Socket and spawned the receive task, and its
\* caller is about to invoke OpenHandler, while the peer sends a message or
\* a CLOSE or goes away
InitOpen == InitOf({Dialer}, 0, {ProbeConfig})

NextOpen ==
    \/ OpenHandler
    \/ \E f \in { Plain(1, WEBSOCKET_OPCODE_TEXT, <<65>>), Plain(1, WEBSOCKET_OPCODE_CLOSE, <<>>) } :
          PeerFrame(f, ~client, KeyA)
    \/ \E n \in 1..Len(inbound) : RecvData(n)
    \/ RecvError
    \/ RecvParse(KeyB)
    \/ RecvExit
    \/ CallStep(Receiver)

SpecOpen == InitOpen /\ [][NextOpen]_vars

(* ------------------------------------------------------------------ *)
(* One Config passed to Dial or Handle again and again                  *)
(* (uws.go:101-113, 307-318): the calls normalise it in place           *)
(* ------------------------------------------------------------------ *)
\* values a caller may give the options: zero, below the least, within the
\* range and above the most of each
RawConfigs ==
    [ ReadSize : {0, 1, 8192, 1048576},
      FragmentSize : {0, 2097152},
      MessageSize : {0, 4095},
      ConnectTimeout : {0, 500, 5 * Second, 60 * Second},
      ProbeTimeout : {0, 500, 5 * Second, 60 * Second},
      InactiveTimeout : {0, Second, 12 * Second, 400 * Second},
      WriteTimeout : {0, 500, 60 * Second},
      WriteBufferSize : {0, 1},
      ReadBufferSize : {0, 67108864} ]

\* no Socket is built yet: the caller holds a Config as it wrote it
InitConfig ==
    /\ config \in RawConfigs
    /\ norms = <<>>
    /\ handshake = NoHandshake
    /\ client = FALSE
    /\ opened = FALSE
    /\ connected = FALSE
    /\ closing = FALSE
    /\ connClosed = FALSE
    /\ wlock = "none"
    /\ dlock = "none"
    /\ pc = [t \in Tasks |-> <<"off">>]
    /\ out = [t \in Tasks |-> NoFrame]
    /\ err = [t \in Tasks |-> FALSE]
    /\ ccode = [t \in Tasks |-> 0]
    /\ calls = [t \in Tasks |-> 0]
    /\ wdata = [t \in Tasks |-> <<>>]
    /\ wmode = [t \in Tasks |-> 0]
    /\ wframe = [t \in Tasks |-> 0]
    /\ wmask = [t \in Tasks |-> <<>>]
    /\ rx = RxInit
    /\ ev = EvNone
    /\ inbound = <<>>
    /\ peer = PeerInit
    /\ wire = <<>>
    /\ delivered = <<>>
    /\ hcalls = <<>>
    /\ failsLeft = 0

\* lines 101-113: Dial normalises the Config it is given, in place
DialClamp ==
    /\ Len(norms) < MaxNorms
    /\ config' = DialConfig(config)
    /\ norms' = Append(norms, Norm(TRUE, config))
    /\ UNCHANGED << client, connected, closing, connClosed, wlock, dlock, pc, out, err,
                    ccode, calls, wdata, wmode, wframe, wmask, rx, ev, inbound, peer, wire,
                    delivered, hcalls, failsLeft, opened, handshake >>

\* lines 307-318: Handle normalises the Config it is given, in place
HandleClamp ==
    /\ Len(norms) < MaxNorms
    /\ config' = HandleConfig(config)
    /\ norms' = Append(norms, Norm(FALSE, config))
    /\ UNCHANGED << client, connected, closing, connClosed, wlock, dlock, pc, out, err,
                    ccode, calls, wdata, wmode, wframe, wmask, rx, ev, inbound, peer, wire,
                    delivered, hcalls, failsLeft, opened, handshake >>

NextConfig == DialClamp \/ HandleClamp

SpecConfig == InitConfig /\ [][NextConfig]_vars

(* ------------------------------------------------------------------ *)
(* The receive task of a socket whose sizes are not scaled: the limit   *)
(* of lines 529 and 547 is the MessageSize of the normalised Config     *)
(* ------------------------------------------------------------------ *)
\* the MessageSize the embedder may set
LimitConfigs == { [ProbeConfig EXCEPT !.MessageSize = m] : m \in {0, 1024, 4096, 5000} }

\* payload lengths the peer declares
LongLengths == {2000, 4096, 4097, 5000, 5001}

\* a payload of n bytes 'A'
LongPayload(n) == [i \in 1..n |-> 65]

\* a final TEXT frame with a 16-bit length n and a payload of n bytes
LongFrame(n) == RawFrame(1, 0, WEBSOCKET_OPCODE_TEXT, 126, PutUint16(n), LongPayload(n))

\* the peer sends one final TEXT frame of n bytes, as the first thing it sends
PeerLong(n, key) ==
    /\ Top(Receiver) = "R_read"
    /\ ~connClosed
    /\ peer.n = 0
    /\ inbound' = RawBytes(LongFrame(n), ~client, key)
    /\ peer' = [peer EXCEPT !.n = 1, !.clean = FALSE, !.declared = << n >>]
    /\ UNCHANGED << client, connected, closing, connClosed, wlock, dlock, pc, out, err,
                    ccode, calls, wdata, wmode, wframe, wmask, rx, ev, wire, delivered,
                    hcalls, failsLeft, config, norms, opened, handshake >>

\* the bytes a read returns: all that are there or half of them, and at the
\* start of a frame a part of its header
ReadLengths ==
    {Len(inbound), (Len(inbound) + 1) \div 2}
        \cup (IF rx.buffer = <<>> /\ rx.size < 0 THEN {3} ELSE {})

InitLimit == InitOf({}, 0, LimitConfigs)

NextLimit ==
    \/ \E n \in LongLengths : PeerLong(n, KeyA)
    \/ \E n \in ReadLengths : RecvData(n)
    \/ RecvError
    \/ RecvParseAt(KeyB, config.MessageSize)
    \/ RecvExit
    \/ CallStep(Receiver)

SpecLimit == InitLimit /\ [][NextLimit]_vars


(* ------------------------------------------------------------------ *)
(* Handle: the subprotocol of the upgrade (uws.go:275-296) and the      *)
(* Socket it builds (uws.go:297-336).  A header value is a sequence of  *)
(* characters, a protocol name likewise                                 *)
(* ------------------------------------------------------------------ *)
\* the most substrings Split is asked for at line 278
SplitLimit == 10

\* a character the expression [, ]+ matches
IsSep(c) == c \in {",", " "}

\* regexp.Split from position beg on, k more substrings to be cut off
\* before the rest is taken whole
RECURSIVE SplitFrom(_, _, _)
SplitFrom(s, beg, k) ==
    LET seps == { i \in beg..Len(s) : IsSep(s[i]) }
    IN  IF k = 0 \/ seps = {} THEN << SubSeq(s, beg, Len(s)) >>
        ELSE LET m0 == CHOOSE i \in seps : \A j \in seps : i <= j
                 m1 == CHOOSE i \in m0..Len(s) :
                          /\ \A j \in m0..i : IsSep(s[j])
                          /\ (i = Len(s) \/ ~IsSep(s[i + 1]))
             IN  << SubSeq(s, beg, m0 - 1) >> \o SplitFrom(s, m1 + 1, k - 1)

\* (*Regexp).Split(s, n) of the expression [, ]+, as line 278 calls it: at
\* most n substrings, the last one the rest of s unsplit
Split(s, n) ==
    IF n = 0 THEN <<>>
    ELSE IF s = <<>> THEN << <<>> >>
    ELSE SplitFrom(s, 1, n - 1)

\* lines 284-288: the last of cprotocols that sprotocols holds, "" if none
RECURSIVE LastOffered(_, _)
LastOffered(cprotocols, sprotocols) ==
    IF cprotocols = <<>> THEN <<>>
    ELSE LET value == cprotocols[Len(cprotocols)]
         IN  IF value \in sprotocols THEN value
             ELSE LastOffered(SubSeq(cprotocols, 1, Len(cprotocols) - 1), sprotocols)

\* lines 275-296: the status Handle answers with and the protocol it echoes
Negotiated(h) ==
    IF Len(h.Protocols) > 0
    THEN LET cprotocols == Split(h.header, SplitLimit)
             sprotocols == { h.Protocols[i] : i \in 1..Len(h.Protocols) }
             protocol == LastOffered(cprotocols, sprotocols)
         IN  IF protocol # <<>> THEN [status |-> 101, protocol |-> protocol]
             ELSE IF h.NeedProtocol THEN [status |-> 400, protocol |-> <<>>]
             ELSE [status |-> 101, protocol |-> <<>>]
    ELSE [status |-> 101, protocol |-> <<>>]

\* protocol names
NameA == <<"a">>
NameB == <<"b", "2">>
NameX == <<"x">>

\* a header value: the names with `sep` between them
RECURSIVE Joined(_, _)
Joined(names, sep) ==
    IF names = <<>> THEN <<>>
    ELSE IF Len(names) = 1 THEN names[1]
    ELSE names[1] \o sep \o Joined(Tail(names), sep)

\* n times the name x
Repeated(x, n) == [i \in 1..n |-> x]

\* lists of names a client may offer: short ones, and ones of SplitLimit
\* names or more
OfferedLists ==
    { <<>> }
    \cup { <<p>> : p \in {NameA, NameB, NameX} }
    \cup { <<p, q>> : p, q \in {NameA, NameB, NameX} }
    \cup { Repeated(NameX, SplitLimit - 2) \o tail :
             tail \in { <<NameA>>, <<NameA, NameB>>, <<NameA, NameX>>,
                        <<NameX, NameA>>, <<NameX, NameX, NameA>>, <<NameA, NameX, NameB>> } }

\* upgrade requests that have passed the tests of lines 259-274, and the
\* Protocols and NeedProtocol of the Config given to Handle
Requests ==
    { [header |-> Joined(names, sep), Protocols |-> served, NeedProtocol |-> need,
       status |-> 0, protocol |-> <<>>] :
         names \in OfferedLists,
         sep \in { <<",">>, <<",", " ">> },
         served \in { <<>>, <<NameA>>, <<NameB>>, <<NameA, NameB>> },
         need \in BOOLEAN }

\* Handle is called with an upgrade request; no Socket is built yet
InitHandle ==
    /\ handshake \in Requests
    /\ config = ProbeConfig
    /\ norms = <<>>
    /\ client = FALSE
    /\ opened = FALSE
    /\ connected = FALSE
    /\ closing = FALSE
    /\ connClosed = FALSE
    /\ wlock = "none"
    /\ dlock = "none"
    /\ pc = [t \in Tasks |-> <<"off">>]
    /\ out = [t \in Tasks |-> NoFrame]
    /\ err = [t \in Tasks |-> FALSE]
    /\ ccode = [t \in Tasks |-> 0]
    /\ calls = [t \in Tasks |-> 0]
    /\ wdata = [t \in Tasks |-> <<>>]
    /\ wmode = [t \in Tasks |-> 0]
    /\ wframe = [t \in Tasks |-> 0]
    /\ wmask = [t \in Tasks |-> <<>>]
    /\ rx = RxInit
    /\ ev = EvNone
    /\ inbound = <<>>
    /\ peer = PeerInit
    /\ wire = <<>>
    /\ delivered = <<>>
    /\ hcalls = <<>>
    /\ failsLeft = 0

\* lines 275-333: Handle answers 400 and returns, or answers 101, takes the
\* connection over, normalises the Config, builds the Socket and spawns the
\* receive task; OpenHandler is then to be called
HandleUpgrade ==
    /\ handshake.status = 0
    /\ LET r == Negotiated(handshake)
       IN  /\ handshake' = [handshake EXCEPT !.status = r.status, !.protocol = r.protocol]
           /\ IF r.status = 101
              THEN /\ config' = HandleConfig(config)
                   /\ norms' = Append(norms, Norm(FALSE, config))
                   /\ connected' = TRUE
                   /\ pc' = [pc EXCEPT ![Receiver] = <<"R_read">>, ![Dialer] = <<"D_open">>]
              ELSE UNCHANGED << config, norms, connected, pc >>
    /\ UNCHANGED << client, closing, connClosed, wlock, dlock, out, err, ccode, calls,
                    wdata, wmode, wframe, wmask, rx, ev, inbound, peer, wire, delivered,
                    hcalls, failsLeft, opened >>

NextHandle == HandleUpgrade \/ OpenHandler

SpecHandle == InitHandle /\ [][NextHandle]_vars

\* as SpecProbe, with stream writes that may fail while conn is open
InitFail == InitWith({"w1"}, MaxFail)

NextFail ==
    \/ PeerFrame(Plain(1, WEBSOCKET_OPCODE_PING, <<65>>), ~client, KeyA)
    \/ RecvData(Len(inbound))
    \/ RecvTimeout(KeyB)
    \/ RecvError
    \/ RecvParse(KeyB)
    \/ RecvPonged
    \/ RecvPinged
    \/ RecvExit
    \/ \E t \in Tasks :
        \/ SendCheck(t)
        \/ SendLock(t)
        \/ SendWriteOk(t)
        \/ SendWriteFail(t)
        \/ SendReturn(t)
        \/ CloseLock(t)
        \/ CloseHandler(t)
        \/ CloseSend(t, KeyB)
        \/ CloseClear(t)
        \/ CloseConn(t)
        \/ WriteCall(t, [mode |-> WEBSOCKET_OPCODE_TEXT, data |-> <<65, 66, 67>>])
        \/ WriteLock(t)
        \/ WriteFragment(t, KeyA)
        \/ WriteSent(t)

SpecFail == InitFail /\ [][NextFail]_vars

(* ------------------------------------------------------------------ *)
(* The receive task against a stream of bytes that is there from the    *)
(* start and that the reads split in every way                          *)
(* ------------------------------------------------------------------ *)
\* frames of a stream: data frames with 7-, 16- and 64-bit lengths, fragments,
\* control frames, and frames the socket refuses
ChunkMenu ==
    { Plain(1, WEBSOCKET_OPCODE_TEXT, <<65>>),
      Plain(0, WEBSOCKET_OPCODE_TEXT, <<195>>),
      Plain(1, 0, <<169>>),
      RawFrame(1, 0, WEBSOCKET_OPCODE_BLOB, 126, <<0, 2>>, <<65, 66>>),
      RawFrame(1, 0, WEBSOCKET_OPCODE_TEXT, 127, <<0, 0, 0, 0, 0, 0, 0, 1>>, <<66>>),
      Plain(1, WEBSOCKET_OPCODE_PING, <<65, 66>>),
      Plain(1, WEBSOCKET_OPCODE_PONG, <<>>),
      Plain(1, WEBSOCKET_OPCODE_CLOSE, <<3, 232>>),
      Plain(0, WEBSOCKET_OPCODE_BLOB, TooLong),
      RawFrame(1, 0, WEBSOCKET_OPCODE_TEXT, 127, <<255, 255, 255, 255, 255, 255, 255, 255>>, <<>>) }

\* the frames of one stream at most
MaxStream == 2

\* the streams of at most MaxStream frames, masked as the role of the socket
\* requires
RECURSIVE StreamsOf(_)
StreamsOf(k) ==
    IF k = 0 THEN { <<>> }
    ELSE LET shorter == StreamsOf(k - 1)
         IN  shorter \cup { s \o RawBytes(f, ~client, KeyA) : s \in shorter, f \in ChunkMenu }

\* the peer puts a whole stream on conn, before the receive task has read
PeerStream(s) ==
    /\ Top(Receiver) = "R_read"
    /\ ~connClosed
    /\ peer.n = 0
    /\ s # <<>>
    /\ inbound' = s
    /\ peer' = [peer EXCEPT !.n = 1, !.clean = FALSE, !.stream = s]
    /\ UNCHANGED << client, connected, closing, connClosed, wlock, dlock, pc, out, err,
                    ccode, calls, wdata, wmode, wframe, wmask, rx, ev, wire, delivered,
                    hcalls, failsLeft, config, norms, opened, handshake >>

InitChunk == InitWith({}, 0)

NextChunk ==
    \/ \E s \in StreamsOf(MaxStream) : PeerStream(s)
    \/ \E n \in 1..Len(inbound) : RecvData(n)
    \/ RecvError
    \/ RecvParse(KeyB)
    \/ RecvPonged
    \/ RecvExit
    \/ CallStep(Receiver)

SpecChunk == InitChunk /\ [][NextChunk]_vars

(* ------------------------------------------------------------------ *)
(* Close called by a task while the receive task reads and parses the   *)
(* frames of the peer                                                   *)
(* ------------------------------------------------------------------ *)
InitShut == InitWith({"c1"}, 0)

NextShut ==
    \/ \E op \in {WEBSOCKET_OPCODE_TEXT, WEBSOCKET_OPCODE_BLOB} :
          PeerFrame(Plain(1, op, <<65>>), ~client, KeyA)
    \/ \E n \in {1, Len(inbound)} : RecvData(n)
    \/ RecvError
    \/ RecvParse(KeyB)
    \/ RecvExit
    \/ \E t \in Tasks :
        \/ CallStep(t)
        \/ \E code \in CloseCodes : CloseCall(t, code)

SpecShut == InitShut /\ [][NextShut]_vars

(* ------------------------------------------------------------------ *)
(* Tasks calling Write and Close beside the receive task, each task     *)
(* scheduled again and again while it has a step to take                *)
(* ------------------------------------------------------------------ *)
\* the tasks that call Write and Close
Callers == Writers \cup {"c1"}

InitLive == InitWith(Callers, MaxFail)

\* a step of task t inside Write, Close or send: stream writes return,
\* with or without an error
TaskStep(t) ==
    \/ CallStep(t)
    \/ SendWriteFail(t)
    \/ SendReturn(t)
    \/ WriteLock(t)
    \/ WriteFragment(t, KeyA)
    \/ WriteSent(t)

\* a step of the receive task that does not wait for the peer
ReceiveStep == RecvExit

\* a step some task can take without waiting for the peer or for a caller
AnyStep == ReceiveStep \/ \E t \in Tasks : TaskStep(t)

\* the Write called by the tasks: one fragment
LiveInput == [mode |-> WEBSOCKET_OPCODE_TEXT, data |-> <<65>>]

NextLive ==
    \/ RecvError
    \/ ReceiveStep
    \/ \E t \in Tasks :
        \/ TaskStep(t)
        \/ WriteCall(t, LiveInput)
        \/ CloseCall(t, 0)

\* the runtime runs a goroutine whenever one can run
SpecLive == InitLive /\ [][NextLive]_vars /\ WF_vars(AnyStep)
(* ------------------------------------------------------------------ *)
(* Properties                                                           *)
(* ------------------------------------------------------------------ *)
\* the receive task waits for bytes and the peer has none on the way
Drained == pc[Receiver] = <<"R_read">> /\ inbound = <<>>

\* the receive task has left its outer loop
Left == pc[Receiver][Len(pc[Receiver])] \in {"R_exit", "R_done"}

\* receive has returned
Returned == pc[Receiver] = <<"R_done">>

\* the receive task has left its loop with `code`, has passed it to Close and
\* CloseHandler has been given nothing else
ClosesWith(code) ==
    /\ Left
    /\ rx.code = code
    /\ (Top(Receiver) # "R_exit" => ccode[Receiver] = code)
    /\ \A i \in 1..Len(hcalls) : hcalls[i].code = code
    /\ (Returned => Len(hcalls) = 1)

\* t is inside Close
InClose(t) ==
    \E i \in 1..Len(pc[t]) : pc[t][i] \in {"C_lock", "C_handler", "C_send", "C_clear", "C_conn"}

WireOf(kind) == { i \in 1..Len(wire) : wire[i].kind = kind }

\* the payloads of the PONGs on the wire, in order
RECURSIVE PongsFrom(_)
PongsFrom(i) ==
    IF i > Len(wire) THEN <<>>
    ELSE (IF wire[i].kind = "pong" THEN << wire[i].plain >> ELSE <<>>) \o PongsFrom(i + 1)

IsText(m) == m.mode = WEBSOCKET_OPCODE_TEXT

(* C1: a PING received between the fragments of a message is answered with
   a PONG and leaves the message alone: from a peer that keeps to RFC 6455
   and has sent PINGs inside a message, the socket delivers nothing but the
   peer's complete messages, and once it has consumed all the peer sent it
   has delivered all of them and answered every PING. *)
C1_ControlInterleaving ==
    (peer.valid /\ peer.inter = "ping") =>
        /\ delivered = <<>>
        /\ (Drained => peer.sent = <<>> /\ PongsFrom(1) = peer.pings)

(* C2: however many times Close is called, CloseHandler is invoked once and
   one CLOSE frame is handed to the stream: never more than one of each, and
   exactly one of each when connected is cleared or when Close has been
   called and every call has returned. *)
C2_CloseOnce ==
    /\ Len(hcalls) <= 1
    /\ Cardinality(WireOf("close")) <= 1
    /\ ((~connected \/ (closing /\ \A t \in Tasks : ~InClose(t)))
            => Len(hcalls) = 1 /\ Cardinality(WireOf("close")) = 1)

C2_Witness ==
    /\ closing /\ \A t \in Tasks : ~InClose(t)
    /\ \A t \in Closers : calls[t] >= 1
    /\ Returned
    /\ \E i \in 1..Len(wire) : ~wire[i].ok
    /\ Len(hcalls) = 1

(* C3: closing never goes back to false, connected never goes back to true,
   and connected is cleared only in a state where closing is set. *)
C3_Monotonic ==
    [][ /\ (closing => closing')
        /\ (~connected => ~connected')
        /\ ((connected /\ ~connected') => closing)
        /\ (~connected' => closing') ]_vars

C3_Witness ==
    /\ ~connected /\ closing
    /\ \A t \in Closers : calls[t] >= 1 /\ pc[t] = <<"idle">>
    /\ Returned

\* fragment sizes at which Write changes the encoding of the length
LongSizes == {125, 126, 4096, 65535, 65536, 1048576}

\* the header Write produces for a fragment of n bytes, parsed by the endpoint
\* of the opposite role, gives back n, FIN, the opcode and the key
HeaderRoundTrip ==
    \A isClient \in BOOLEAN, n \in LongSizes :
        LET hdr == WriteHeader(WEBSOCKET_OPCODE_BLOB, n, 1, n)
            bytes == Flatten(IF isClient THEN WithMask(hdr, KeyB) ELSE hdr)
            r == ParseHeader([RxInit EXCEPT !.buffer = bytes], ~isClient, n)
        IN  /\ r.res = "ok"
            /\ r.st.size = n /\ r.st.dsize = n
            /\ r.st.fin = 1 /\ r.st.opcode = WEBSOCKET_OPCODE_BLOB
            /\ r.st.buffer = <<>>
            /\ (isClient => r.st.mask = KeyB)

(* C4: the frames Write of the peer endpoint produces for messages of 1 to
   MessageSize bytes (valid UTF-8 when TEXT) make the socket invoke
   MessageHandler once per message, in order, with the opcode and the bytes
   of the message: nothing else is delivered, and once all the frames are
   consumed every message has been delivered; and the length Write encodes
   for a fragment, on 7, 16 or 64 bits, is the length the decoder reads. *)
C4_RoundTrip ==
    /\ peer.clean =>
            /\ delivered = <<>>
            /\ (Drained => peer.sent = <<>>)
            /\ (ev.msgs # <<>> => Deliverable(ev.msgs[1]))
    /\ HeaderRoundTrip

C4_Witness ==
    /\ peer.clean /\ peer.n >= 1 /\ peer.sent = <<>>
    /\ Drained
    /\ ~client
    /\ ev.msgs # <<>> /\ IsText(ev.msgs[1]) /\ Len(ev.msgs[1].data) > FragmentSize

(* C5: on the wire the fragments of one Write call are in order, and no data
   frame of another Write call lies between two of them. *)
C5_Contiguous ==
    \A i, j \in WireOf("data") :
        (i < j /\ wire[i].task = wire[j].task /\ wire[i].call = wire[j].call) =>
            /\ wire[i].idx < wire[j].idx
            /\ \A k \in WireOf("data") :
                 (i < k /\ k < j) => (wire[k].task = wire[i].task /\ wire[k].call = wire[i].call)

C5_Witness ==
    \A t \in Writers :
        \E i, j \in WireOf("data") :
            /\ i < j /\ wire[i].task = t /\ wire[j].task = t
            /\ wire[i].ok /\ wire[j].ok
            /\ wire[j].bufs[1][1] >= WEBSOCKET_FIN

\* the bytes of a frame on the wire are those RFC 6455 prescribes for the
\* role: masked with a 4-byte key, or not masked and without a key
RoleMasked(f) ==
    LET b == Flatten(f.bufs)
        n == Len(f.plain)
    IN  /\ Len(b) >= 2
        /\ IF client
           THEN /\ b[2] = WEBSOCKET_MASK + n
                /\ Len(b) = 6 + n
                /\ SubSeq(b, 7, 6 + n) = RfcMask(SubSeq(b, 3, 6), f.plain)
           ELSE /\ b[2] = n
                /\ Len(b) = 2 + n
                /\ SubSeq(b, 3, 2 + n) = f.plain

(* C6: every frame handed to the stream is masked according to the role: on
   a client the MASK bit is set, a 4-byte key follows the length and the
   payload is the plaintext XORed with the key; on a server the MASK bit is
   clear and the payload follows the length as it is. *)
C6_MaskByRole == \A i \in 1..Len(wire) : RoleMasked(wire[i])

C6_Witness ==
    /\ client
    /\ \A kind \in {"data", "ping", "pong", "close"} :
         \E i \in WireOf(kind) : wire[i].ok /\ (kind \in {"data", "pong"} => wire[i].plain # <<>>)

\* the two header bytes break RFC 6455 in one of the four ways of the claim
Violates(hdr) ==
    LET fin == hdr[1] \div 128
        opcode == hdr[1] % 16
        masked == hdr[2] >= 128
    IN  \/ (client /\ masked)
        \/ (~client /\ ~masked)
        \/ (opcode >= WEBSOCKET_OPCODE_CLOSE /\ fin = 0)
        \/ opcode \notin {0, 1, 2, 8, 9, 10}

(* C7: when the header the receive loop parses is masked on a client, not
   masked on a server, a control frame with FIN = 0 or of an opcode outside
   {0, 1, 2, 8, 9, 10}, the loop is left in that step without a delivery and
   Close and CloseHandler are given 1002. *)
C7_ProtocolViolation ==
    (ev.hdr # <<>> /\ Violates(ev.hdr)) => (ev.msgs = <<>> /\ ClosesWith(WEBSOCKET_ERROR_PROTOCOL))

C7_Witness ==
    /\ ev.hdr # <<>> /\ Violates(ev.hdr)
    /\ ev.hdr[1] % 16 \in {0, 1, 2, 8, 9, 10}
    /\ Returned /\ ~connected
    /\ hcalls # <<>>

(* C8: no message longer than MessageSize is delivered, and when the peer
   has sent an empty TEXT or BLOB frame, a control frame declaring more than
   125 bytes or a message whose declared lengths add up to more than
   MessageSize, nothing is delivered but the complete messages sent before,
   the socket does not go on reading once it has consumed these bytes, and
   it leaves the loop with 1009. *)
C8_Oversized ==
    /\ \A i \in 1..Len(ev.msgs) : Len(ev.msgs[i].data) <= MessageSize
    /\ (peer.over # "none" =>
            /\ delivered = <<>>
            /\ ~Drained
            /\ (Left => ClosesWith(WEBSOCKET_ERROR_OVERSIZED)))

(* C9: a TEXT message assembled to its final fragment that is not valid
   UTF-8 is not delivered, the loop is left in that step and Close and
   CloseHandler are given 1007; an assembled BLOB is delivered whatever its
   bytes; and the socket does not go on reading past a complete TEXT of the
   peer that is not valid UTF-8. *)
C9_InvalidUtf8 ==
    /\ \A i \in 1..Len(ev.asm) :
         IF IsText(ev.asm[i]) /\ ~Rfc3629(ev.asm[i].data)
         THEN ev.msgs = <<>> /\ ClosesWith(WEBSOCKET_ERROR_INVALID)
         ELSE ev.msgs = ev.asm
    /\ (peer.valid /\ peer.inter = "none" /\ Drained) =>
         \A i \in 1..Len(peer.sent) : ~(IsText(peer.sent[i]) /\ ~Rfc3629(peer.sent[i].data))

C9_Witness ==
    /\ peer.valid /\ peer.sent # <<>>
    /\ ev.asm = << peer.sent[1] >>
    /\ IsText(ev.asm[1]) /\ ~Rfc3629(ev.asm[1].data) /\ Len(ev.asm[1].data) > FragmentSize
    /\ Returned /\ hcalls # <<>>

(* C10: a header whose first byte has one of the bits RSV1, RSV2, RSV3 set
   makes the receive loop leave with 1002, whatever the opcode. *)
C10_ReservedBits ==
    (ev.hdr # <<>> /\ (ev.hdr[1] \div 16) % 8 # 0) => ClosesWith(WEBSOCKET_ERROR_PROTOCOL)


\* the CLOSE frames handed to the stream carry `code`, or no payload for 0
ReplyCarries(code) ==
    \A i \in WireOf("close") :
        LET b == Flatten(wire[i].bufs)
            n == b[2] % 128
            key == IF client THEN SubSeq(b, 3, 6) ELSE <<0, 0, 0, 0>>
            body == RfcMask(key, SubSeq(b, Len(b) - n + 1, Len(b)))
        IN  /\ b[1] = WEBSOCKET_FIN + WEBSOCKET_OPCODE_CLOSE
            /\ Len(b) = 2 + (IF client THEN 4 ELSE 0) + n
            /\ CloseCode(body) = code
            /\ n = IF code = 0 THEN 0 ELSE 2

(* C11: once the peer, keeping to RFC 6455, has sent a CLOSE frame, also
   between the fragments of a message, the socket delivers nothing but the
   peer's complete messages, does not go on reading past the CLOSE, and
   leaves the receive loop with the code of the CLOSE (0 if it carries
   none), which Close and CloseHandler are given and the CLOSE frame sent
   back carries. *)
C11_PeerClose ==
    (peer.valid /\ peer.closed # <<>>) =>
        /\ delivered = <<>>
        /\ ~Drained
        /\ (Left => ClosesWith(peer.closed[1]))
        /\ ReplyCarries(peer.closed[1])

\* the PONGs handed to the stream have FIN set and carry their payload as
\* RFC 6455 prescribes for the role
PongsWellFormed ==
    \A i \in WireOf("pong") :
        /\ Flatten(wire[i].bufs)[1] = WEBSOCKET_FIN + WEBSOCKET_OPCODE_PONG
        /\ RoleMasked(wire[i])

\* the decoder holds no frame and no message
DecoderIdle == rx.size = -1 /\ rx.dmode = 0 /\ rx.data = <<>> /\ rx.control = <<>>

(* C12: while the peer keeps to RFC 6455 and sends no CLOSE, every PING it
   sends is answered with one PONG that has FIN set and the PING's payload,
   in order, and its PINGs and PONGs cause nothing else: no callback but for
   the peer's complete messages, no other frame, and once all it sent is
   consumed every PING is answered, every message is delivered and, between
   messages, the decoder is back in its idle state. *)
C12_PingPong ==
    (peer.valid /\ peer.closed = <<>>) =>
        /\ delivered = <<>>
        /\ PongsWellFormed
        /\ ((Drained \/ Left) => PongsFrom(1) = peer.pings)
        /\ (Drained => peer.sent = <<>> /\ (peer.cur = <<>> => DecoderIdle))

\* the time without a byte from the peer, after the reads that timed out in a
\* row, has reached the InactiveTimeout of the socket
LimitReached == rx.idle * config.ProbeTimeout >= config.InactiveTimeout

\* f is a PING of RFC 6455 with FIN set and no payload, masked on a client
EmptyPing(f) ==
    LET b == Flatten(f.bufs)
    IN  /\ Len(b) = IF client THEN 6 ELSE 2
        /\ b[1] = WEBSOCKET_FIN + WEBSOCKET_OPCODE_PING
        /\ b[2] = IF client THEN WEBSOCKET_MASK ELSE 0

\* a read of the receive task times out in this step
TimesOut == Top(Receiver) = "R_read" /\ rx'.idle = rx.idle + 1

\* the receive task moves on after its PING is sent
Probed == Top(Receiver) = "R_ping" /\ pc'[Receiver] # pc[Receiver]

(* C13: when a read times out the receive task hands one PING with FIN set
   and an empty payload to the stream, and when that PING is sent and the
   time without a byte from the peer is below InactiveTimeout it goes back
   to reading; as long as that time stays below InactiveTimeout the socket
   is not closing, CloseHandler is not invoked and the receive task stays
   in its loop. *)
C13_Keepalive ==
    /\ []( (closing \/ hcalls # <<>> \/ Left) => LimitReached )
    /\ []( Top(Receiver) = "R_ping" => EmptyPing(wire[Len(wire)]) /\ wire[Len(wire)].ok )
    /\ [][ /\ TimesOut => ( /\ EmptyPing(out'[Receiver])
                            /\ Top(Receiver)' = "S_check"
                            /\ wire' = wire )
           /\ (Probed /\ ~LimitReached) => ( /\ pc'[Receiver] = <<"R_read">>
                                             /\ Cardinality(WireOf("ping"))' = Cardinality(WireOf("ping")) )
       ]_vars

C13_Witness ==
    /\ Drained /\ ~closing /\ hcalls = <<>>
    /\ Cardinality(WireOf("ping")) * config.ProbeTimeout >= config.InactiveTimeout
    /\ Cardinality(WireOf("pong")) >= 1
    /\ peer.n = MaxFrames
    /\ rx.idle >= 1

\* the socket is closed with code 0: receive has returned, CloseHandler was
\* invoked once, with 0, and one CLOSE frame without a code was handed out
ClosedZero ==
    /\ Returned /\ ClosesWith(0)
    /\ ~connected /\ connClosed
    /\ Cardinality(WireOf("close")) = 1 /\ ReplyCarries(0)

\* the InactiveTimeout the caller of Dial or Handle configured
Configured == norms[1].from.InactiveTimeout

\* the receive task does not read on once the limit is reached, and from
\* then on the socket gets closed with code 0
ExpiresAtLimit ==
    /\ []( Top(Receiver) = "R_read" => ~LimitReached )
    /\ ( LimitReached ~> ClosedZero )
    /\ []( Left => LimitReached /\ rx.code = 0 )

(* C14, as stated: after InactiveTimeout without a byte from the peer,
   while reads keep timing out and nobody else calls Close, the receive task
   exits, the socket closes with code 0 and CloseHandler is invoked once,
   with 0; and a configured InactiveTimeout of 3 s is the limit that
   applies. *)
C14_AsStated ==
    /\ ExpiresAtLimit
    /\ []( Configured = 3 * Second =>
             (LimitReached <=> rx.idle * config.ProbeTimeout >= Configured) )

(* C14, amended: the same expiry, where the limit that applies is the
   configured InactiveTimeout raised to ProbeTimeout + 1 s when it is below:
   a configured 3 s applies only if ProbeTimeout is at most 2 s. *)
C14_Inactivity ==
    /\ ExpiresAtLimit
    /\ []( Configured = 3 * Second =>
             config.InactiveTimeout = IF config.ProbeTimeout + Second > 3 * Second
                                      THEN config.ProbeTimeout + Second
                                      ELSE 3 * Second )

C14_Witness ==
    /\ ClosedZero
    /\ Configured = 3 * Second /\ config.InactiveTimeout > 3 * Second
    /\ peer.n >= 1 /\ inbound = <<>>
    /\ Cardinality(WireOf("ping")) > Cardinality(WireOf("pong"))

(* C15: OpenHandler is invoked before any MessageHandler and any
   CloseHandler invocation of the socket: no message is delivered and
   CloseHandler is not invoked while OpenHandler has not been. *)
C15_OpenFirst ==
    /\ (ev.msgs # <<>> => opened)
    /\ \A i \in 1..Len(hcalls) : hcalls[i].opened

\* some task has built the CLOSE frame of Close, or has handed it to the stream
CloseFrameBuilt == WireOf("close") # {} \/ \E t \in Tasks : out[t].kind = "close"

(* C16: CloseHandler is invoked at most once, with connected still true, and
   no CLOSE frame is built or handed to the stream and connected is not
   cleared before CloseHandler has been invoked. *)
C16_HandlerFirst ==
    /\ Len(hcalls) <= 1
    /\ \A i \in 1..Len(hcalls) : hcalls[i].connected
    /\ (CloseFrameBuilt \/ ~connected \/ connClosed) => hcalls # <<>>

C16_Witness ==
    /\ Len(hcalls) = 1 /\ hcalls[1].connected
    /\ hcalls[1].task \in Closers /\ hcalls[1].code # 0
    /\ \E i \in WireOf("close") : wire[i].ok
    /\ ~connected /\ connClosed
    /\ \A t \in Tasks : ~InClose(t)

\* the data frames of the last Write call of t handed to the stream, in order
FramesOf(t) ==
    SelectSeq(wire, LAMBDA f : f.kind = "data" /\ f.task = t /\ f.call = calls[t])

\* the last Write call of t, of a TEXT or BLOB message that is not empty, has
\* returned without an error
Written(t) ==
    /\ t \in Writers /\ pc[t] = <<"idle">> /\ calls[t] >= 1 /\ ~err[t]
    /\ wmode[t] \in {WEBSOCKET_OPCODE_TEXT, WEBSOCKET_OPCODE_BLOB}
    /\ wdata[t] # <<>>

\* the payload of a frame with a 7-bit length, unmasked by RFC 6455 if the
\* MASK bit is set; <<-1>> if the bytes do not make up such a frame
PayloadOf(b) ==
    LET n == b[2] % 128
        h == IF b[2] >= WEBSOCKET_MASK THEN 6 ELSE 2
    IN  IF n >= 126 \/ Len(b) # h + n THEN << -1 >>
        ELSE IF h = 6 THEN RfcMask(SubSeq(b, 3, 6), SubSeq(b, 7, Len(b)))
        ELSE SubSeq(b, 3, Len(b))

\* the payload length a frame header declares, on 7, 16 or 64 bits
DeclaredLen(b) ==
    LET n == b[2] % 128
    IN  IF n = 126 THEN b[3] * 256 + b[4]
        ELSE IF n = 127
        THEN IF b[3] + b[4] + b[5] + b[6] # 0 THEN -1
             ELSE b[7] * 16777216 + b[8] * 65536 + b[9] * 256 + b[10]
        ELSE n

\* the headers Write builds at fragment sizes Dial and Handle allow, for data
\* of two fragments and a rest: their count, FIN, opcode and declared length
LongFragments ==
    \A F \in {4096, 65536, 1048576}, r \in {0, 1, 4095} :
        LET n == 2 * F + r
            k == (n + F - 1) \div F
        IN  /\ Frames(n, F) = k
            /\ \A j \in 1..k :
                 LET b == Flatten(WriteHeader(WEBSOCKET_OPCODE_TEXT, n, j, F))
                 IN  /\ b[1] = (IF j = k THEN WEBSOCKET_FIN ELSE 0)
                                    + (IF j = 1 THEN WEBSOCKET_OPCODE_TEXT ELSE 0)
                     /\ DeclaredLen(b) = IF j = k THEN n - (k - 1) * F ELSE F

(* C17: a Write of n > 0 bytes of TEXT or BLOB that returns without an error
   has handed ceil(n / FragmentSize) frames to the stream; the first has the
   opcode of the call and the others opcode 0, the last one alone has FIN,
   each but the last carries FragmentSize bytes and the last the rest, and
   the payloads in order make up the data. *)
C17_Fragments ==
    /\ LongFragments
    /\ \A t \in Writers :
        Written(t) =>
            LET n == Len(wdata[t])
                k == (n + FragmentSize - 1) \div FragmentSize
                fs == FramesOf(t)
            IN  /\ Len(fs) = k
                /\ \A j \in 1..Len(fs) :
                     LET b == Flatten(fs[j].bufs)
                         first == (j - 1) * FragmentSize + 1
                         last == IF j = k THEN n ELSE j * FragmentSize
                     IN  /\ fs[j].ok
                         /\ b[1] = (IF j = k THEN WEBSOCKET_FIN ELSE 0)
                                        + (IF j = 1 THEN wmode[t] ELSE 0)
                         /\ PayloadOf(b) = SubSeq(wdata[t], first, last)

C17_Witness ==
    \E t \in Writers :
        /\ Written(t) /\ client
        /\ Len(FramesOf(t)) >= 3
        /\ Len(wdata[t]) % FragmentSize # 0

\* spans of every length up to MaxSpan, which reach the word-wise path of xor
\* (two words and a rest) as well as the byte-wise one
MaxSpan == 19
Spans == { [i \in 1..n |-> (i * 37 + n * 101) % 256] : n \in 0..MaxSpan }

\* masking a span twice with the same key gives the span back
Involution == \A key \in Keys, x \in Spans : xor(key, xor(key, x)) = x

\* the call of Write by task t has returned
WriteReturned(t) == calls[t] >= 1 /\ pc[t] = <<"idle">>

\* the last send of the Write of task t failed on its second or a later fragment
FailedPartWay(t) == WriteReturned(t) /\ err[t] /\ wframe[t] >= 2

(* C18: masking a span twice with the same key gives the span back, for every
   key and every length of span; and when a call of Write has returned, on a
   client as on a server, the data of the caller is what it was at the call,
   whether every fragment was sent or a send failed and Write returned early. *)
C18_DataRestored ==
    /\ Involution
    /\ \A t \in Writers :
        WriteReturned(t) => [mode |-> wmode[t], data |-> wdata[t]] \in WriteInputs

C18_Witness ==
    /\ client
    /\ \E t, u \in Writers :
        /\ FailedPartWay(t)
        /\ \E i \in 1..Len(wire) : wire[i].kind = "data" /\ wire[i].task = t /\ wire[i].idx = 2 /\ ~wire[i].ok
        /\ Written(u) /\ Len(FramesOf(u)) >= 2


\* calls i and i + 1 given the same Config were both of Dial, or both of Handle
SamePath(i) == i + 1 <= Len(norms) /\ norms[i].by = norms[i + 1].by

(* C19: when Dial, or Handle, is given a Config that a call of the same
   function has normalised before, it leaves every numeric option as that
   call left it: normalising twice gives what normalising once gives. *)
C19_Idempotent ==
    \A i \in 1..Len(norms) : SamePath(i) => norms[i + 1].to = norms[i].to

\* an option by its row of the table of defaults: the default for zero, else
\* the value brought into [least, most]
TableValue(v, default, least, most) ==
    IF v = 0 THEN default
    ELSE IF v < least THEN least
    ELSE IF v > most THEN most
    ELSE v

\* a buffer size by its row: zero stays zero
TableBuffer(v) == IF v = 0 THEN 0 ELSE TableValue(v, 4096, 4096, 33554432)

\* the Config the table of defaults gives for the supplied Config c
Table(c) ==
    LET probe == TableValue(c.ProbeTimeout, 15 * Second, 1 * Second, 30 * Second)
    IN  [ ReadSize |-> TableValue(c.ReadSize, 4096, 4096, 262144),
          FragmentSize |-> TableValue(c.FragmentSize, 16384, 4096, 1048576),
          MessageSize |-> TableValue(c.MessageSize, 4194304, 4096, 67108864),
          ConnectTimeout |-> TableValue(c.ConnectTimeout, 10 * Second, 1 * Second, 30 * Second),
          ProbeTimeout |-> probe,
          InactiveTimeout |-> TableValue(c.InactiveTimeout, 3 * probe, probe + Second, 5 * probe),
          WriteTimeout |-> TableValue(c.WriteTimeout, 10 * Second, 1 * Second, 30 * Second),
          WriteBufferSize |-> TableBuffer(c.WriteBufferSize),
          ReadBufferSize |-> TableBuffer(c.ReadBufferSize) ]

\* the numeric options Handle normalises: all but ConnectTimeout
HandleOptions == (DOMAIN ZeroConfig) \ {"ConnectTimeout"}

(* C20: after Dial every numeric option, and after Handle every numeric
   option but ConnectTimeout, has the value the table of defaults gives for
   the value supplied: ConnectTimeout from the supplied ConnectTimeout,
   ProbeTimeout with a default of 15 s on both paths, InactiveTimeout from
   the normalised ProbeTimeout, and a buffer size of zero left at zero. *)
C20_Table ==
    \A i \in 1..Len(norms) :
        LET n == norms[i]
        IN  \A o \in (IF n.by = "Dial" THEN DOMAIN ZeroConfig ELSE HandleOptions) :
                n.to[o] = Table(n.from)[o]

\* the MessageSize the caller of Dial or Handle set in its Config
Supplied == norms[1].from.MessageSize

\* the one message the peer of SpecLimit sends, of n bytes
LongText(n) == [mode |-> WEBSOCKET_OPCODE_TEXT, data |-> LongPayload(n)]

\* every byte the peer has sent is read and parsed
Consumed == inbound = <<>> /\ rx.buffer = <<>> /\ Top(Receiver) # "R_parse"

\* the final TEXT frame of n bytes is refused on its header: none of its
\* payload is taken, nothing is delivered, and the socket closes with 1009
RefusedLong ==
    /\ delivered = <<>>
    /\ rx.data = <<>>
    /\ (rx.size >= 0 => rx.code = WEBSOCKET_ERROR_OVERSIZED)
    /\ (Left => ClosesWith(WEBSOCKET_ERROR_OVERSIZED))

\* the final TEXT frame of n bytes is taken and, once its bytes are parsed,
\* delivered as the one message
AcceptedLong(n) ==
    /\ rx.code # WEBSOCKET_ERROR_OVERSIZED
    /\ delivered \in { <<>>, << LongText(n) >> }
    /\ (Consumed => delivered = << LongText(n) >>)

(* C21 as stated: the limit of the receive loop is the MessageSize the
   embedder set, so with MessageSize = 1024 a TEXT frame that declares 2000
   bytes is refused with 1009 and nothing is delivered. *)
C21_AsStated ==
    \A n \in LongLengths :
        (peer.declared = << n >> /\ Supplied # 0 /\ n > Supplied) => RefusedLong

(* C21: the limit of the receive loop is the MessageSize of the normalised
   Config: 4 MiB when none was set, else the value set brought into
   [4 KiB, 64 MiB].  A final TEXT frame that declares more is refused on its
   header with 1009 and nothing is delivered; one that declares no more is
   delivered: with MessageSize = 1024 set, the limit is 4096 and a TEXT frame
   of 2000 bytes is delivered. *)
C21_Limit ==
    /\ config.MessageSize = IF Supplied = 0 THEN 4194304
                            ELSE IF Supplied < 4096 THEN 4096
                            ELSE IF Supplied > 67108864 THEN 67108864
                            ELSE Supplied
    /\ \A n \in LongLengths :
          peer.declared = << n >> =>
              IF n > config.MessageSize THEN RefusedLong ELSE AcceptedLong(n)

C21_Witness ==
    /\ ~client /\ Supplied = 1024
    /\ peer.declared = << 2000 >>
    /\ delivered = << LongText(2000) >>
    /\ Top(Receiver) = "R_read"

\* the positions of header h where a value the client offers begins
OfferStarts(h) == { i \in 1..Len(h) : ~IsSep(h[i]) /\ (i = 1 \/ IsSep(h[i - 1])) }

\* the value that begins at position i of header h
OfferAt(h, i) ==
    LET last == CHOOSE j \in i..Len(h) :
                    /\ \A k \in i..j : ~IsSep(h[k])
                    /\ (j = Len(h) \/ IsSep(h[j + 1]))
    IN  SubSeq(h, i, last)

\* the positions of the offered values that the server's list holds
Served(hs) ==
    { i \in OfferStarts(hs.header) :
        \E k \in 1..Len(hs.Protocols) : hs.Protocols[k] = OfferAt(hs.header, i) }

\* Handle has returned a Socket
SocketBuilt == connected /\ Len(norms) = 1 /\ pc[Receiver] # <<"off">>

(* C22: once Handle has answered an upgrade request: if some value of the
   client's Sec-WebSocket-Protocol list, however long, is in the server's
   Protocols, the answer is 101 and echoes the last such value; if none is
   and NeedProtocol is set, the answer is 400 and no Socket is built, also
   when the server's Protocols are empty; if none is and NeedProtocol is not
   set, the answer is 101 without the header. *)
C22_Subprotocol ==
    handshake.status # 0 =>
        LET served == Served(handshake)
        IN  IF served # {}
            THEN /\ handshake.status = 101
                 /\ handshake.protocol =
                        OfferAt(handshake.header, CHOOSE i \in served : \A j \in served : j <= i)
                 /\ SocketBuilt
            ELSE IF handshake.NeedProtocol
            THEN handshake.status = 400 /\ ~SocketBuilt
            ELSE handshake.status = 101 /\ handshake.protocol = <<>> /\ SocketBuilt

\* wire[i] and wire[k] are two fragments of one message
SameMessage(i, k) ==
    /\ wire[i].kind = "data" /\ wire[k].kind = "data"
    /\ wire[i].task = wire[k].task /\ wire[i].call = wire[k].call

(* C23: no PING and no PONG of the receive task is written to the stream
   between two fragments of one message that Write sends. *)
C23_NoControlInside ==
    \A i, k \in 1..Len(wire) :
        (i < k /\ SameMessage(i, k)) =>
            \A j \in (i + 1)..(k - 1) : wire[j].kind \notin {"ping", "pong"}

(* C24: the reassembly buffer of the receive loop never holds more than
   MessageSize bytes, whatever frames arrive and however the reads split
   them. *)
C24_BufferBound == Len(rx.data) <= MessageSize

\* the buffer is full and the frame being read has bytes to come, or was
\* refused for them
C24_Witness ==
    /\ Len(rx.data) = MessageSize
    /\ rx.size > 0
    /\ rx.code = WEBSOCKET_ERROR_OVERSIZED

\* a stream write of task t has failed
FailedWrite(t) == \E i \in 1..Len(wire) : wire[i].task = t /\ ~wire[i].ok

\* t is in the Close(0) that send calls after a failed stream write
InCloseOfSend(t) == InClose(t) /\ \E i \in 1..Len(pc[t]) : pc[t][i] = "S_ret"

\* no task is inside a call and the receive task has returned
AllReturned == Returned /\ \A t \in Writers \cup Closers : pc[t] \in { <<"idle">>, <<"off">> }

\* after a failed stream write: Close(0) is called, so closing is set as soon
\* as the call has passed its locked section, CloseHandler is given 0 by it,
\* and when every task has returned the socket is closed, the handler
\* having run once
ClosedOnFailure ==
    \A t \in Tasks :
        /\ (FailedWrite(t) /\ Top(t) # "C_lock") => closing
        /\ InCloseOfSend(t) => ccode[t] = 0
        /\ \A i \in 1..Len(hcalls) :
             (hcalls[i].task = t /\ (t \in Writers \/ InCloseOfSend(t))) => hcalls[i].code = 0
        /\ (FailedWrite(t) /\ AllReturned) => (~connected /\ connClosed /\ Len(hcalls) = 1)

\* a Write whose fragment k failed has no fragment after k on the stream, and
\* the task has the error once that call, its latest, has returned
StopsAtFailure ==
    \A i \in 1..Len(wire) :
        (wire[i].kind = "data" /\ ~wire[i].ok) =>
            /\ \A k \in 1..Len(wire) : SameMessage(i, k) => wire[k].idx <= wire[i].idx
            /\ (WriteReturned(wire[i].task) /\ calls[wire[i].task] = wire[i].call)
                  => err[wire[i].task]

\* a send that finds connected false returns the error and writes nothing
RefusesUnconnected ==
    \A t \in Tasks :
        (Top(t) = "S_check" /\ ~connected /\ pc'[t] # pc[t]) =>
            (pc'[t] = Tail(pc[t]) /\ err'[t] /\ wire' = wire)

(* C25: when a stream write fails inside send, for a fragment of Write, a
   PONG or a PING, Close(0) is called: CloseHandler is given 0 unless the
   socket was closing already, and the socket ends up not connected; a Write
   whose fragment k fails returns the error and sends no fragment after k; a
   send that finds connected false returns an error and writes nothing. *)
C25_WriteErrors == [](ClosedOnFailure /\ StopsAtFailure) /\ [][RefusesUnconnected]_vars

C25_Witness ==
    /\ AllReturned
    /\ \E i \in 1..Len(wire) : wire[i].kind \in {"ping", "pong"} /\ ~wire[i].ok
    /\ \E i \in 1..Len(wire) : wire[i].kind = "data" /\ wire[i].idx = 2 /\ ~wire[i].ok
    /\ hcalls # <<>> /\ hcalls[1].code = 0
    /\ ~connected

(* ------------------------------------------------------------------ *)
(* C26: the decoder does not depend on how the reads split the stream   *)
(* ------------------------------------------------------------------ *)
\* the inner loop of receive over a buffer that holds the whole stream: the
\* passes of the parser one after the other, the PONG of each PING sent and
\* the control buffer released, until the loop breaks for more bytes, leaves
\* with a close code or panics
RECURSIVE ParseAll(_, _, _, _)
ParseAll(st, isClient, msgs, pongs) ==
    LET r == ParseIter(st, isClient, MessageSize)
        got == msgs \o r.msgs
    IN  CASE r.res = "cont" -> ParseAll(r.st, isClient, got, pongs)
          [] r.res = "pong" ->
                LET after == [r.st EXCEPT !.size = -1, !.control = <<>>]
                    sent == Append(pongs, r.st.control)
                IN  IF after.buffer = <<>>
                    THEN [st |-> after, res |-> "break", msgs |-> got, pongs |-> sent]
                    ELSE ParseAll(after, isClient, got, sent)
          [] OTHER -> [st |-> r.st, res |-> r.res, msgs |-> got, pongs |-> pongs]

\* what the socket does with the stream of the peer read in one piece
OneRead == ParseAll([RxInit EXCEPT !.buffer = peer.stream], client, <<>>, <<>>)

\* the part of the decoder that says where it stands in the stream
Progress(st) ==
    << st.buffer, st.size, st.dmode, st.dsize, st.doffset, st.dlast, st.data,
       st.control, st.code >>

\* the messages handed over and the PONGs sent so far are the first ones of
\* the one-piece read
IsPrefix(a, b) == Len(a) <= Len(b) /\ \A i \in 1..Len(a) : a[i] = b[i]

\* a pass of the parser that breaks on a header it has not whole consumes
\* nothing of the buffer
HeaderKept ==
    (/\ Top(Receiver) = "R_parse"
     /\ rx.size < 0
     /\ ParseHeader(rx, client, MessageSize).res = "break")
    => (rx'.buffer = rx.buffer /\ rx'.size < 0 /\ pc'[Receiver] = <<"R_read">>)

\* a pass of the parser that leaves the loop leaves it where the one-piece
\* read does, with its close code and after its outputs
SameExit ==
    /\ (Top(Receiver) = "R_parse" /\ pc'[Receiver] = <<"R_exit">>) =>
          /\ OneRead.res = "close"
          /\ rx'.code = OneRead.st.code
          /\ delivered' = OneRead.msgs
          /\ PongsFrom(1) = OneRead.pongs
    /\ (Top(Receiver) = "R_parse" /\ pc'[Receiver] = <<"R_panic">>) =>
          /\ OneRead.res = "panic"
          /\ delivered' = OneRead.msgs
          /\ PongsFrom(1) = OneRead.pongs

\* the outputs of a part of the stream are the first ones of the whole, and
\* once the stream is consumed the outputs and the decoder are those of the
\* one-piece read
ChunkOutputs ==
    peer.n = 1 =>
       /\ IsPrefix(delivered, OneRead.msgs)
       /\ IsPrefix(PongsFrom(1), OneRead.pongs)
       /\ Drained =>
             /\ OneRead.res = "break"
             /\ Progress(rx) = Progress(OneRead.st)
             /\ delivered = OneRead.msgs
             /\ PongsFrom(1) = OneRead.pongs

\* C26: whatever the lengths of the reads that bring a stream in, the
\* messages delivered, the PONGs sent, the close code and the state of the
\* decoder once the stream is consumed are those of the stream read in one
\* piece, and a break on an incomplete header leaves the buffer as it was
C26_Chunking == []ChunkOutputs /\ [][HeaderKept /\ SameExit]_vars

\* the first frame of a stream is delivered and the reads have cut the header
\* of the second inside its 16-bit length: the receive task waits for the
\* rest with the first bytes of the header still in its buffer
C26_Witness ==
    /\ pc[Receiver] = <<"R_read">>
    /\ Len(delivered) = 1
    /\ rx.size < 0
    /\ Len(rx.buffer) = 3
    /\ rx.buffer[2] % 128 = 126
    /\ inbound # <<>>

(* ------------------------------------------------------------------ *)
(* C27: the CLOSE frame is the last frame of the stream                 *)
(* ------------------------------------------------------------------ *)
\* a frame of the given kind lies on the stream after a CLOSE frame
AfterClose(kind) ==
    \E i \in 1..Len(wire) : \E j \in (i + 1)..Len(wire) :
        /\ wire[i].kind = "close" /\ wire[i].ok
        /\ wire[j].kind = kind /\ wire[j].ok

\* C27: once the CLOSE frame of the socket is written to the stream, no data
\* fragment, PING or PONG is written to it
C27_CloseLast ==
    /\ ~AfterClose("data")
    /\ ~AfterClose("ping")
    /\ ~AfterClose("pong")
    /\ ~AfterClose("close")

(* ------------------------------------------------------------------ *)
(* C28: no message after CloseHandler                                   *)
(* ------------------------------------------------------------------ *)
\* a pass of the parser hands a message to MessageHandler
Delivers == Top(Receiver) = "R_parse" /\ rx' # rx /\ ev'.msgs # <<>>

\* C28: once CloseHandler has been invoked, MessageHandler is not invoked
C28_NoMessageAfterClose == [][Delivers => hcalls = <<>>]_vars

(* ------------------------------------------------------------------ *)
(* C29: every call of Write and of Close returns                        *)
(* ------------------------------------------------------------------ *)
\* task t is inside a call of Write or Close
InCall(t) == pc[t] # <<"idle">> /\ pc[t] # <<"off">>

\* C29: a task inside Write or Close is back from its call later on, and the
\* receive task that leaves its loop returns from its Close: no task waits
\* for ever on wlock, dlock or clock
C29_Returns ==
    /\ \A t \in Callers : InCall(t) ~> (pc[t] = <<"idle">>)
    /\ (Top(Receiver) = "R_exit") ~> (pc[Receiver] = <<"R_done">>)

\* a write of Write has failed with dlock held, the Close(0) of send has run
\* CloseHandler, and every caller has returned
C29_Witness ==
    /\ \A t \in Callers : pc[t] = <<"idle">> /\ calls[t] = MaxCalls
    /\ hcalls # <<>>
    /\ hcalls[1].task \in Writers
    /\ \E i \in 1..Len(wire) : wire[i].kind = "data" /\ ~wire[i].ok /\ wire[i].task = hcalls[1].task

(* ------------------------------------------------------------------ *)
(* C30: what MessageHandler is given                                    *)
(* ------------------------------------------------------------------ *)
\* the opcode handed to MessageHandler is TEXT or BLOB
HandlerModes ==
    \A i \in 1..Len(ev.msgs) :
        ev.msgs[i].mode \in {WEBSOCKET_OPCODE_TEXT, WEBSOCKET_OPCODE_BLOB}

\* the payload handed to MessageHandler has 1 to MessageSize bytes
HandlerLengths ==
    \A i \in 1..Len(ev.msgs) :
        Len(ev.msgs[i].data) >= 1 /\ Len(ev.msgs[i].data) <= MessageSize

\* a continuation frame that comes while no message is in progress hands
\* nothing to MessageHandler
StrayDropped ==
    (/\ Top(Receiver) = "R_parse"
     /\ rx.size < 0
     /\ rx.dmode = 0
     /\ Len(rx.buffer) >= 2
     /\ rx.buffer[1] % 16 = 0
     /\ rx' # rx)
    => ev'.msgs = <<>>

\* C30: every call of MessageHandler has an opcode TEXT or BLOB and a payload
\* of 1 to MessageSize bytes, and a continuation frame outside a fragmented
\* message is not delivered
C30_HandlerArguments == [](HandlerModes /\ HandlerLengths) /\ [][StrayDropped]_vars

====
